---- MODULE Spec2Model ----
(***************************************************************************)
(* Verification model of the prayer-times service of islamic-apis:        *)
(* the request handler (prayer-times-api/src/handlers.rs) and the         *)
(* calculation engine (prayer-times-api/src/calculations.rs).             *)
(*                                                                         *)
(* Numbers.  The engine computes in f64.  The model computes in exact     *)
(* fixed-point integers and keeps one extra value, NaN:                    *)
(*   - hours of day are counted in seconds        (SecPerHour per hour),  *)
(*   - angles are counted in 1/10000 degree       (AngUnit per degree),   *)
(*   - sines and cosines are scaled by TrigScale,                          *)
(*   - a Julian date is counted in half days.                              *)
(* Additions and subtractions are exact; products and quotients are       *)
(* rounded to the nearest unit.  The rounding of f64 itself (one unit in  *)
(* the last place) is modelled where it decides a result, in fix, by a    *)
(* shorter significand (FRound); elsewhere it is below the model's        *)
(* resolution.  dtr and rtd only                                           *)
(* ever occur around a libm call, so sin(dtr(x)) is the operator sin_deg, *)
(* rtd(acos(x)) the operator acos_deg, and so on: the model's angles are  *)
(* always degrees.                                                         *)
(*                                                                         *)
(* Strings.  A formatted date or time is the record of the fields the     *)
(* format string prints (zero padding makes that a bijection).            *)
(***************************************************************************)
EXTENDS Integers, Sequences, FiniteSets, TLC

(***************************************************************************)
(* Units and f64 special values                                            *)
(***************************************************************************)
SecPerHour == 3600
SecPerMinute == 60
AngUnit == 10000
TrigScale == 10000
TableStep == 1000
\* f64 NaN: no integer the pipeline can produce.
NaN == -2000000000

IsNaN(x) == x = NaN

Deg(whole, tenths) == whole * AngUnit + tenths * TableStep

Abs(x) == IF x < 0 THEN -x ELSE x

Sign(x) == IF x < 0 THEN -1 ELSE 1

\* f64::round of n/d for d > 0: to the nearest integer, halves away from zero.
RoundDiv(n, d) ==
    IF n >= 0 THEN (2 * n + d) \div (2 * d) ELSE -((2 * (-n) + d) \div (2 * d))

\* `let v = e;`: e is evaluated once and F is applied to its value.
Bind(e, F(_)) == CHOOSE r \in {F(v) : v \in {e}} : TRUE

\* The arithmetic of f64 on the model's values: NaN is absorbing.
FAdd(x, y) == IF IsNaN(x) \/ IsNaN(y) THEN NaN ELSE x + y

FSub(x, y) == IF IsNaN(x) \/ IsNaN(y) THEN NaN ELSE x - y

FNeg(x) == IF IsNaN(x) THEN NaN ELSE -x

\* x * n / d for integers n, d > 0 (a product or quotient by a constant).
FScale(x, n, d) == IF IsNaN(x) THEN NaN ELSE RoundDiv(x * n, d)

\* Every comparison with NaN is false.
FGt(x, y) == ~IsNaN(x) /\ ~IsNaN(y) /\ x > y

FLt(x, y) == ~IsNaN(x) /\ ~IsNaN(y) /\ x < y

(***************************************************************************)
(* libm: sin, cos, asin, acos, atan, atan2 on degrees                      *)
(***************************************************************************)
\* SinTable[i + 1] = TrigScale * sin(i / 10 degrees), i = 0..900.
SinTable ==
<<
    0, 17, 35, 52, 70, 87, 105, 122, 140, 157, 175, 192, 209, 227, 244,
    262, 279, 297, 314, 332, 349, 366, 384, 401, 419, 436, 454, 471, 488, 506,
    523, 541, 558, 576, 593, 610, 628, 645, 663, 680, 698, 715, 732, 750, 767,
    785, 802, 819, 837, 854, 872, 889, 906, 924, 941, 958, 976, 993, 1011, 1028,
    1045, 1063, 1080, 1097, 1115, 1132, 1149, 1167, 1184, 1201, 1219, 1236, 1253, 1271, 1288,
    1305, 1323, 1340, 1357, 1374, 1392, 1409, 1426, 1444, 1461, 1478, 1495, 1513, 1530, 1547,
    1564, 1582, 1599, 1616, 1633, 1650, 1668, 1685, 1702, 1719, 1736, 1754, 1771, 1788, 1805,
    1822, 1840, 1857, 1874, 1891, 1908, 1925, 1942, 1959, 1977, 1994, 2011, 2028, 2045, 2062,
    2079, 2096, 2113, 2130, 2147, 2164, 2181, 2198, 2215, 2233, 2250, 2267, 2284, 2300, 2317,
    2334, 2351, 2368, 2385, 2402, 2419, 2436, 2453, 2470, 2487, 2504, 2521, 2538, 2554, 2571,
    2588, 2605, 2622, 2639, 2656, 2672, 2689, 2706, 2723, 2740, 2756, 2773, 2790, 2807, 2823,
    2840, 2857, 2874, 2890, 2907, 2924, 2940, 2957, 2974, 2990, 3007, 3024, 3040, 3057, 3074,
    3090, 3107, 3123, 3140, 3156, 3173, 3190, 3206, 3223, 3239, 3256, 3272, 3289, 3305, 3322,
    3338, 3355, 3371, 3387, 3404, 3420, 3437, 3453, 3469, 3486, 3502, 3518, 3535, 3551, 3567,
    3584, 3600, 3616, 3633, 3649, 3665, 3681, 3697, 3714, 3730, 3746, 3762, 3778, 3795, 3811,
    3827, 3843, 3859, 3875, 3891, 3907, 3923, 3939, 3955, 3971, 3987, 4003, 4019, 4035, 4051,
    4067, 4083, 4099, 4115, 4131, 4147, 4163, 4179, 4195, 4210, 4226, 4242, 4258, 4274, 4289,
    4305, 4321, 4337, 4352, 4368, 4384, 4399, 4415, 4431, 4446, 4462, 4478, 4493, 4509, 4524,
    4540, 4555, 4571, 4586, 4602, 4617, 4633, 4648, 4664, 4679, 4695, 4710, 4726, 4741, 4756,
    4772, 4787, 4802, 4818, 4833, 4848, 4863, 4879, 4894, 4909, 4924, 4939, 4955, 4970, 4985,
    5000, 5015, 5030, 5045, 5060, 5075, 5090, 5105, 5120, 5135, 5150, 5165, 5180, 5195, 5210,
    5225, 5240, 5255, 5270, 5284, 5299, 5314, 5329, 5344, 5358, 5373, 5388, 5402, 5417, 5432,
    5446, 5461, 5476, 5490, 5505, 5519, 5534, 5548, 5563, 5577, 5592, 5606, 5621, 5635, 5650,
    5664, 5678, 5693, 5707, 5721, 5736, 5750, 5764, 5779, 5793, 5807, 5821, 5835, 5850, 5864,
    5878, 5892, 5906, 5920, 5934, 5948, 5962, 5976, 5990, 6004, 6018, 6032, 6046, 6060, 6074,
    6088, 6101, 6115, 6129, 6143, 6157, 6170, 6184, 6198, 6211, 6225, 6239, 6252, 6266, 6280,
    6293, 6307, 6320, 6334, 6347, 6361, 6374, 6388, 6401, 6414, 6428, 6441, 6455, 6468, 6481,
    6494, 6508, 6521, 6534, 6547, 6561, 6574, 6587, 6600, 6613, 6626, 6639, 6652, 6665, 6678,
    6691, 6704, 6717, 6730, 6743, 6756, 6769, 6782, 6794, 6807, 6820, 6833, 6845, 6858, 6871,
    6884, 6896, 6909, 6921, 6934, 6947, 6959, 6972, 6984, 6997, 7009, 7022, 7034, 7046, 7059,
    7071, 7083, 7096, 7108, 7120, 7133, 7145, 7157, 7169, 7181, 7193, 7206, 7218, 7230, 7242,
    7254, 7266, 7278, 7290, 7302, 7314, 7325, 7337, 7349, 7361, 7373, 7385, 7396, 7408, 7420,
    7431, 7443, 7455, 7466, 7478, 7490, 7501, 7513, 7524, 7536, 7547, 7559, 7570, 7581, 7593,
    7604, 7615, 7627, 7638, 7649, 7660, 7672, 7683, 7694, 7705, 7716, 7727, 7738, 7749, 7760,
    7771, 7782, 7793, 7804, 7815, 7826, 7837, 7848, 7859, 7869, 7880, 7891, 7902, 7912, 7923,
    7934, 7944, 7955, 7965, 7976, 7986, 7997, 8007, 8018, 8028, 8039, 8049, 8059, 8070, 8080,
    8090, 8100, 8111, 8121, 8131, 8141, 8151, 8161, 8171, 8181, 8192, 8202, 8211, 8221, 8231,
    8241, 8251, 8261, 8271, 8281, 8290, 8300, 8310, 8320, 8329, 8339, 8348, 8358, 8368, 8377,
    8387, 8396, 8406, 8415, 8425, 8434, 8443, 8453, 8462, 8471, 8480, 8490, 8499, 8508, 8517,
    8526, 8536, 8545, 8554, 8563, 8572, 8581, 8590, 8599, 8607, 8616, 8625, 8634, 8643, 8652,
    8660, 8669, 8678, 8686, 8695, 8704, 8712, 8721, 8729, 8738, 8746, 8755, 8763, 8771, 8780,
    8788, 8796, 8805, 8813, 8821, 8829, 8838, 8846, 8854, 8862, 8870, 8878, 8886, 8894, 8902,
    8910, 8918, 8926, 8934, 8942, 8949, 8957, 8965, 8973, 8980, 8988, 8996, 9003, 9011, 9018,
    9026, 9033, 9041, 9048, 9056, 9063, 9070, 9078, 9085, 9092, 9100, 9107, 9114, 9121, 9128,
    9135, 9143, 9150, 9157, 9164, 9171, 9178, 9184, 9191, 9198, 9205, 9212, 9219, 9225, 9232,
    9239, 9245, 9252, 9259, 9265, 9272, 9278, 9285, 9291, 9298, 9304, 9311, 9317, 9323, 9330,
    9336, 9342, 9348, 9354, 9361, 9367, 9373, 9379, 9385, 9391, 9397, 9403, 9409, 9415, 9421,
    9426, 9432, 9438, 9444, 9449, 9455, 9461, 9466, 9472, 9478, 9483, 9489, 9494, 9500, 9505,
    9511, 9516, 9521, 9527, 9532, 9537, 9542, 9548, 9553, 9558, 9563, 9568, 9573, 9578, 9583,
    9588, 9593, 9598, 9603, 9608, 9613, 9617, 9622, 9627, 9632, 9636, 9641, 9646, 9650, 9655,
    9659, 9664, 9668, 9673, 9677, 9681, 9686, 9690, 9694, 9699, 9703, 9707, 9711, 9715, 9720,
    9724, 9728, 9732, 9736, 9740, 9744, 9748, 9751, 9755, 9759, 9763, 9767, 9770, 9774, 9778,
    9781, 9785, 9789, 9792, 9796, 9799, 9803, 9806, 9810, 9813, 9816, 9820, 9823, 9826, 9829,
    9833, 9836, 9839, 9842, 9845, 9848, 9851, 9854, 9857, 9860, 9863, 9866, 9869, 9871, 9874,
    9877, 9880, 9882, 9885, 9888, 9890, 9893, 9895, 9898, 9900, 9903, 9905, 9907, 9910, 9912,
    9914, 9917, 9919, 9921, 9923, 9925, 9928, 9930, 9932, 9934, 9936, 9938, 9940, 9942, 9943,
    9945, 9947, 9949, 9951, 9952, 9954, 9956, 9957, 9959, 9960, 9962, 9963, 9965, 9966, 9968,
    9969, 9971, 9972, 9973, 9974, 9976, 9977, 9978, 9979, 9980, 9981, 9982, 9983, 9984, 9985,
    9986, 9987, 9988, 9989, 9990, 9990, 9991, 9992, 9993, 9993, 9994, 9995, 9995, 9996, 9996,
    9997, 9997, 9997, 9998, 9998, 9998, 9999, 9999, 9999, 9999, 10000, 10000, 10000, 10000, 10000,
    10000
>>

TableQuarter == 900

\* The sine of i tenths of a degree, i in 0..3599.
SinIdx(i) ==
    IF i <= TableQuarter THEN SinTable[i + 1]
    ELSE IF i <= 2 * TableQuarter THEN SinTable[2 * TableQuarter - i + 1]
    ELSE IF i <= 3 * TableQuarter THEN -SinTable[i - 2 * TableQuarter + 1]
    ELSE -SinTable[4 * TableQuarter - i + 1]

TableIdx(a) == RoundDiv(a, TableStep) % (4 * TableQuarter)

\* sin(dtr(a))
sin_deg(a) == IF IsNaN(a) THEN NaN ELSE SinIdx(TableIdx(a))

\* cos(dtr(a)).  No f64 has a cosine of exactly zero: cos(dtr(90.0)) is
\* 6.1e-17 and cos(dtr(270.0)) is -1.8e-16; the model keeps them as one unit.
cos_deg(a) ==
    IF IsNaN(a) THEN NaN
    ELSE LET i == TableIdx(Abs(a))
             v == SinIdx((i + TableQuarter) % (4 * TableQuarter))
         IN  IF v # 0 THEN v ELSE IF i = TableQuarter THEN 1 ELSE -1

\* x * y for two values scaled by TrigScale.
FMul(x, y) == IF IsNaN(x) \/ IsNaN(y) THEN NaN ELSE RoundDiv(x * y, TrigScale)

\* The largest i in lo..hi with SinIdx(i) * x <= SinIdx(i + 900) * y, that is
\* with tan(i) <= y / x; the left side grows and the right side falls with i.
RECURSIVE TanSearch(_, _, _, _)
TanSearch(y, x, lo, hi) ==
    IF lo >= hi THEN lo
    ELSE LET mid == (lo + hi + 1) \div 2
         IN  IF SinIdx(mid) * x <= SinIdx(mid + TableQuarter) * y
             THEN TanSearch(y, x, mid, hi)
             ELSE TanSearch(y, x, lo, mid - 1)

\* atan2(y, x) in degrees for y >= 0, x >= 0, not both zero, both <= 10 * TrigScale.
Atan2Q1(y, x) == TableStep * TanSearch(y, x, 0, TableQuarter)

\* rtd(atan2(y, x))
atan2_deg(y, x) ==
    IF IsNaN(y) \/ IsNaN(x) THEN NaN
    ELSE IF x = 0 /\ y = 0 THEN 0
    ELSE LET q == Atan2Q1(Abs(y), Abs(x))
         IN  IF x >= 0 THEN Sign(y) * q
             ELSE Sign(y) * (2 * TableQuarter * TableStep - q)

\* rtd(atan(r)) for r scaled by TrigScale; atan(r) = 90 - atan(1/r) keeps the
\* search's products small.
atan_deg(r) ==
    IF IsNaN(r) THEN NaN
    ELSE LET m == Abs(r)
         IN  Sign(r) * (IF m <= TrigScale THEN Atan2Q1(m, TrigScale)
                        ELSE TableQuarter * TableStep
                             - Atan2Q1(RoundDiv(TrigScale * TrigScale, m), TrigScale))

\* The largest i in lo..hi with SinIdx(i) <= v.
RECURSIVE SinSearch(_, _, _)
SinSearch(v, lo, hi) ==
    IF lo >= hi THEN lo
    ELSE LET mid == (lo + hi + 1) \div 2
         IN  IF SinIdx(mid) <= v THEN SinSearch(v, mid, hi)
             ELSE SinSearch(v, lo, mid - 1)

\* rtd(asin(v)) for v scaled by TrigScale; NaN outside [-1, 1].
asin_deg(v) ==
    IF IsNaN(v) \/ v > TrigScale \/ v < -TrigScale THEN NaN
    ELSE Sign(v) * TableStep * SinSearch(Abs(v), 0, TableQuarter)

\* rtd(acos(v)) = 90 - rtd(asin(v)); NaN outside [-1, 1].
acos_deg(v) ==
    IF IsNaN(asin_deg(v)) THEN NaN ELSE TableQuarter * TableStep - asin_deg(v)

\* f64::clamp(lo, hi): NaN stays NaN.
clamp(v, lo, hi) == IF IsNaN(v) THEN NaN ELSE IF v < lo THEN lo ELSE IF v > hi THEN hi ELSE v

(***************************************************************************)
(* calculations.rs: normalisation                                          *)
(***************************************************************************)
\* floor(a / b) for b > 0
floor_div(a, b) == a \div b

\* An f64 keeps 53 significant bits; the model's numbers keep as many as
\* Significand has (16), so that the spacing of representable values grows
\* with the magnitude as it does in f64: one unit below Significand, two
\* units up to twice that, and so on.
Significand == 65536

RECURSIVE Spacing(_, _)
Spacing(m, s) == IF m \div s < Significand THEN s ELSE Spacing(m, 2 * s)

\* The rounding of an f64 result: nearest representable value, ties to even.
FRound(x) ==
    IF IsNaN(x) THEN NaN
    ELSE LET s == Spacing(Abs(x), 1)
             q == Abs(x) \div s
             r == Abs(x) % s
             n == IF 2 * r > s \/ (2 * r = s /\ q % 2 = 1) THEN q + 1 ELSE q
         IN  Sign(x) * n * s

\* let a = a - b * floor(a / b); if a < 0.0 { a + b } else { a }
\* The subtraction is where the rounding of f64 decides whether the result
\* stays below b, so it is rounded here as f64 rounds it.
fix(a, b) ==
    IF IsNaN(a) THEN NaN
    ELSE LET r == FRound(a - b * floor_div(a, b))
         IN  IF r < 0 THEN FRound(r + b) ELSE r

FullCircle == 360
HoursPerDay == 24

fix_angle(angle) == fix(angle, FullCircle * AngUnit)

fix_hour(hour) == fix(hour, HoursPerDay * SecPerHour)

\* An angle in degrees, divided by 15: hours.
DegToHours(a) == FScale(a, 3, 125)

(***************************************************************************)
(* chrono: calendar dates and zoned instants                               *)
(***************************************************************************)
MinPerDay == 1440
MinPerHour == 60

\* NaiveDate: the day number of a proleptic Gregorian date, 1970-01-01 = 0.
days_from_civil(y, m, d) ==
    LET yy  == IF m <= 2 THEN y - 1 ELSE y
        era == yy \div 400
        yoe == yy - era * 400
        doy == (153 * (IF m > 2 THEN m - 3 ELSE m + 9) + 2) \div 5 + d - 1
        doe == yoe * 365 + yoe \div 4 - yoe \div 100 + doy
    IN  era * 146097 + doe - 719468

\* The date of a day number: [year, month, day].
civil_from_days(z) ==
    LET zz  == z + 719468
        era == zz \div 146097
        doe == zz - era * 146097
        yoe == (doe - doe \div 1460 + doe \div 36524 - doe \div 146096) \div 365
        doy == doe - (365 * yoe + yoe \div 4 - yoe \div 100)
        mp  == (5 * doy + 2) \div 153
        m   == IF mp < 10 THEN mp + 3 ELSE mp - 9
    IN  [year  |-> IF m <= 2 THEN yoe + era * 400 + 1 ELSE yoe + era * 400,
         month |-> m,
         day   |-> doy - (153 * mp + 2) \div 5 + 1]

\* DateTime<FixedOffset>: an instant (minutes since 1970-01-01T00:00Z) and the
\* offset (minutes east of UTC) it is shown in.
DateTime(utc, off) == [utc |-> utc, off |-> off]

\* date.date_naive(): the local day number.
date_naive(dt) == (dt.utc + dt.off) \div MinPerDay

\* Days added on top of the days already added, as a loop that kept its
\* date from one turn to the next would.
plus_days_carried(dt, i) == [dt EXCEPT !.utc = dt.utc + ((i * (i + 1)) \div 2) * MinPerDay]

\* date + Duration::days(i)
plus_days(dt, i) == [dt EXCEPT !.utc = dt.utc + i * MinPerDay]

\* NaiveDate.and_hms_opt(12, 0, 0).and_local_timezone(offset).single()
local_noon(day, off) == DateTime(day * MinPerDay + 12 * MinPerHour - off, off)

\* format("%d/%m/%Y") of a day number
format_date(day) == civil_from_days(day)

(***************************************************************************)
(* hijri_date: the Hijri calendar (tabular arithmetic), and the years the  *)
(* crate converts                                                          *)
(***************************************************************************)
GregorianMinYear == 1938
GregorianMaxYear == 2076
HijriMinYear == 1356
HijriMaxYear == 1500
\* The Julian day number of day 0, and of 1 Muharram 1 AH.
UnixEpochJdn == 2440588
HijriEpochJdn == 1948440

HijriYearStart(hy) == 354 * (hy - 1) + (3 + 11 * hy) \div 30

HijriMonthStart(hm) == 29 * (hm - 1) + hm \div 2

\* HijriDate::from_gr(...).format("%d/%m/%Y") of a day number
hijri_of_day(z) ==
    LET n   == z + UnixEpochJdn - HijriEpochJdn
        hy  == (30 * n + 10646) \div 10631
        doy == n - HijriYearStart(hy)
        hm  == CHOOSE m \in 1..12 :
                   /\ HijriMonthStart(m) <= doy
                   /\ (m = 12 \/ HijriMonthStart(m + 1) > doy)
    IN  [year |-> hy, month |-> hm, day |-> doy - HijriMonthStart(hm) + 1]

\* HijriDate::from_hijri(hy, 1, 1): the day number of 1 Muharram hy.
hijri_new_year(hy) == HijriYearStart(hy) + HijriEpochJdn - UnixEpochJdn

(***************************************************************************)
(* Results                                                                 *)
(***************************************************************************)
NoError == "none"

Ok(v) == [ok |-> TRUE, val |-> v, err |-> NoError]

Err(e, v) == [ok |-> FALSE, val |-> v, err |-> e]

(***************************************************************************)
(* calculations.rs: solar position                                         *)
(***************************************************************************)
\* The Julian date of the UTC day of the instant, not of the local day.
julian_date_of_instant(date) ==
    LET c     == civil_from_days(date.utc \div MinPerDay)
        year  == IF c.month <= 2 THEN c.year - 1 ELSE c.year
        month == IF c.month <= 2 THEN c.month + 12 ELSE c.month
        a     == year \div 100
        b     == 2 - a + (a \div 4)
    IN  2 * (((1461 * (year + 4716)) \div 4)
             + ((306001 * (month + 1)) \div 10000) + c.day + b) - 3049

\* julian_date, in half days (every Julian date of the code ends in .5).
julian_date(date) ==
    LET c     == civil_from_days(date_naive(date))
        year  == IF c.month <= 2 THEN c.year - 1 ELSE c.year
        month == IF c.month <= 2 THEN c.month + 12 ELSE c.month
        a     == floor_div(year, 100)
        b     == 2 - a + floor_div(a, 4)
    IN  2 * (floor_div(1461 * (year + 4716), 4)
             + floor_div(306001 * (month + 1), 10000) + c.day + b) - 3049

\* 2 * 2451545.0
J2000HalfDays == 4903090

\* sun_position: [eqt |-> hours, decl |-> degrees]
\* fix_angle(c * d) for a whole c, with d split in thousands so that no
\* product leaves 32 bits.
TurnMul(c, d) ==
    fix_angle(c * (d % 1000) + ((c * 1000) % (FullCircle * AngUnit)) * floor_div(d, 1000))

\* round(x * n / d) with x split at d, so that no product leaves 32 bits.
SplitScale(x, n, d) == floor_div(x, d) * n + RoundDiv((x % d) * n, d)

sun_position(jd) ==
    LET d  == jd - J2000HalfDays                    \* half days since J2000
        \* 0.98560028 * d and 0.98564736 * d per day, split to stay within 32 bits
        g  == fix_angle(3575290 + TurnMul(4928, d) + SplitScale(d, 28, 20000))
        q  == fix_angle(2804590 + TurnMul(4928, d) + SplitScale(d, 4736, 20000))
        l  == fix_angle(q + RoundDiv(19150 * sin_deg(g), TrigScale)
                          + RoundDiv(200 * sin_deg(2 * g), TrigScale))
        e  == 234390 - SplitScale(d, 36, 20000)
        ra == DegToHours(atan2_deg(FMul(cos_deg(e), sin_deg(l)), cos_deg(l)))
    IN  [eqt  |-> DegToHours(q) - fix_hour(ra),
         decl |-> asin_deg(FMul(sin_deg(e), sin_deg(l)))]

Noon == 12

mid_day(eqt) == fix_hour(Noon * SecPerHour - eqt)

(***************************************************************************)
(* calculations.rs: hour-angle solver                                      *)
(***************************************************************************)
CalculationError == "Calculation"

\* sun_angle_time for latitude lat: Ok(hour) or the Calculation error.
sun_angle_time(lat, angle, eqt, decl, direction) ==
    LET noon == mid_day(eqt)
        p1   == FSub(FNeg(sin_deg(angle)), FMul(sin_deg(decl), sin_deg(lat)))
        p2   == FMul(cos_deg(decl), cos_deg(lat))
    IN  IF p2 = 0 THEN Err(CalculationError, 0)
        ELSE LET cos_range == clamp(IF IsNaN(p1) \/ IsNaN(p2) THEN NaN
                                    ELSE Sign(p2) * RoundDiv(p1 * TrigScale, Abs(p2)),
                                    -TrigScale, TrigScale)
                 t == DegToHours(acos_deg(cos_range))
             IN  Ok(FAdd(noon, FScale(t, direction, 1)))

\* asr_time: the shadow angle rtd(atan(1 / (factor + tan|lat - decl|))), then
\* sun_angle_time with direction 1.
asr_angle(lat, factor, decl) ==
    IF IsNaN(decl) THEN NaN
    ELSE LET z   == Abs(lat - decl)
             den == factor * TrigScale + RoundDiv(sin_deg(z) * TrigScale, cos_deg(z))
         IN  IF den = 0 THEN TableQuarter * TableStep
             ELSE atan_deg(Sign(den) * RoundDiv(TrigScale * TrigScale, Abs(den)))

asr_time(lat, factor, eqt, decl) ==
    sun_angle_time(lat, asr_angle(lat, factor, decl), eqt, decl, 1)

(***************************************************************************)
(* models.rs: method settings                                              *)
(***************************************************************************)
\* MinuteOrAngle: minutes, or an angle in degrees.
Minute(m) == [kind |-> "Minute", v |-> m]

Angle(a) == [kind |-> "Angle", v |-> a]

NoRule == "None"

HighLatitudeRules == {"NightMiddle", "AngleBased", "OneSeventh"}

MethodSettings(fajr, isha, midnight, maghrib, imsak, dhuhr, shafaq, school, high_lat) ==
    [fajr |-> fajr, isha |-> isha, midnight |-> midnight, maghrib |-> maghrib,
     imsak |-> imsak, dhuhr |-> dhuhr, shafaq |-> shafaq, school |-> school,
     high_lat |-> high_lat]

\* A named method: only fajr, isha, maghrib, midnight and shafaq differ.
Named(fajr, isha, midnight, maghrib, shafaq) ==
    MethodSettings(fajr, isha, midnight, maghrib, Minute(10), 0, shafaq, "Standard", NoRule)

StandardMethods ==
    {"Jafari", "Karachi", "Isna", "Mwl", "Makkah", "Egypt", "Tehran", "Gulf", "Kuwait",
     "Qatar", "Singapore", "France", "Turkey", "Russia", "Moonsighting", "Dubai", "Uoif",
     "Diyanet", "Jakim"}

to_method_settings(method) ==
    CASE method = "Mwl" -> Named(Deg(18, 0), Angle(Deg(17, 0)), "Standard", Minute(0), "None")
      [] method = "Isna" -> Named(Deg(15, 0), Angle(Deg(15, 0)), "Standard", Minute(0), "None")
      [] method = "Egypt" -> Named(Deg(19, 5), Angle(Deg(17, 5)), "Standard", Minute(0), "None")
      [] method = "Makkah" -> Named(Deg(18, 5), Minute(90), "Standard", Minute(0), "None")
      [] method = "Karachi" -> Named(Deg(18, 0), Angle(Deg(18, 0)), "Standard", Minute(0), "None")
      [] method = "Tehran" -> Named(Deg(17, 7), Angle(Deg(14, 0)), "Jafari", Angle(Deg(4, 5)), "None")
      [] method = "Jafari" -> Named(Deg(16, 0), Angle(Deg(14, 0)), "Jafari", Angle(Deg(4, 0)), "None")
      [] method = "Gulf" -> Named(Deg(19, 5), Minute(90), "Standard", Minute(0), "None")
      [] method = "Kuwait" -> Named(Deg(18, 0), Angle(Deg(17, 5)), "Standard", Minute(0), "None")
      [] method = "Qatar" -> Named(Deg(18, 0), Minute(90), "Standard", Minute(0), "None")
      [] method = "Singapore" -> Named(Deg(20, 0), Angle(Deg(18, 0)), "Standard", Minute(0), "None")
      [] method \in {"France", "Uoif"} ->
             Named(Deg(12, 0), Angle(Deg(12, 0)), "Standard", Minute(0), "None")
      [] method \in {"Turkey", "Diyanet"} ->
             Named(Deg(18, 0), Angle(Deg(17, 0)), "Standard", Minute(0), "None")
      [] method = "Russia" -> Named(Deg(16, 0), Angle(Deg(15, 0)), "Standard", Minute(0), "None")
      [] method = "Moonsighting" ->
             Named(Deg(18, 0), Angle(Deg(18, 0)), "Standard", Minute(0), "General")
      [] method = "Dubai" -> Named(Deg(18, 2), Angle(Deg(18, 2)), "Standard", Minute(0), "None")
      [] method = "Jakim" -> Named(Deg(20, 0), Angle(Deg(18, 0)), "Standard", Minute(0), "None")

(***************************************************************************)
(* calculations.rs: PrayerCalculator and compute_times                     *)
(***************************************************************************)
Fields ==
    <<"imsak", "fajr", "sunrise", "dhuhr", "asr", "sunset", "maghrib", "isha",
      "midnight", "first_third", "last_third">>

FieldSet == {Fields[i] : i \in 1..Len(Fields)}

\* RawPrayerTimes::default()
DefaultTimes == [f \in FieldSet |-> 0]

Coordinates(latitude, longitude, elevation) ==
    [latitude |-> latitude, longitude |-> longitude, elevation |-> elevation]

\* PrayerCalculator::new
PrayerCalculator(coordinates, method_settings, adjustments) ==
    [coordinates |-> coordinates, method_settings |-> method_settings,
     adjustments |-> adjustments]

\* floor(10 * sqrt(n)) for 0 <= n <= 10000
RECURSIVE SqrtSearch(_, _, _)
SqrtSearch(n, lo, hi) ==
    IF lo >= hi THEN lo
    ELSE LET mid == (lo + hi + 1) \div 2
         IN  IF mid * mid <= 100 * n THEN SqrtSearch(n, mid, hi)
             ELSE SqrtSearch(n, lo, mid - 1)

\* 0.833 + 0.0347 * sqrt(|elevation|), elevation in metres
rise_set_angle(calc) ==
    8330 + RoundDiv(347 * SqrtSearch(Abs(calc.coordinates.elevation), 0, 1000), 10)

\* minute / 60.0: minutes as hours
MinutesToHours(m) == FScale(m, SecPerMinute, 1)

\* The `?` of Rust over several results: the first error, or Ok(v).
FirstError(results, v) ==
    IF \A i \in 1..Len(results) : results[i].ok THEN Ok(v)
    ELSE LET k == CHOOSE i \in 1..Len(results) :
                      ~results[i].ok /\ \A j \in 1..(i - 1) : results[j].ok
         IN  Err(results[k].err, DefaultTimes)

\* compute_times up to the Imsak calculation: the times before any adjustment.
raw_times(calc, sp) ==
    LET lat == calc.coordinates.latitude
        ms  == calc.method_settings
    IN  Bind(rise_set_angle(calc), LAMBDA rsa :
        Bind(sun_angle_time(lat, rsa, sp.eqt, sp.decl, -1), LAMBDA sunrise :
        Bind(sun_angle_time(lat, rsa, sp.eqt, sp.decl, 1), LAMBDA sunset :
        Bind(sun_angle_time(lat, ms.fajr, sp.eqt, sp.decl, -1), LAMBDA fajr :
        Bind(asr_time(lat, IF ms.school = "Hanafi" THEN 2 ELSE 1, sp.eqt, sp.decl),
             LAMBDA asr :
        Bind(IF ms.maghrib.kind = "Angle"
             THEN sun_angle_time(lat, ms.maghrib.v, sp.eqt, sp.decl, 1)
             ELSE Ok(FAdd(sunset.val, MinutesToHours(ms.maghrib.v))), LAMBDA maghrib :
        Bind(IF ms.isha.kind = "Angle"
             THEN sun_angle_time(lat, ms.isha.v, sp.eqt, sp.decl, 1)
             ELSE Ok(FAdd(maghrib.val, MinutesToHours(ms.isha.v))), LAMBDA isha :
        Bind(IF ms.imsak.kind = "Angle"
             THEN sun_angle_time(lat, ms.imsak.v, sp.eqt, sp.decl, -1)
             ELSE Ok(FSub(fajr.val, MinutesToHours(ms.imsak.v))), LAMBDA imsak :
        Bind(<<sunrise, sunset, fajr, asr, maghrib, isha, imsak>>, LAMBDA results :
            FirstError(results,
                       [DefaultTimes EXCEPT !.dhuhr = mid_day(sp.eqt),
                                            !.sunrise = sunrise.val, !.sunset = sunset.val,
                                            !.fajr = fajr.val, !.asr = asr.val,
                                            !.maghrib = maghrib.val, !.isha = isha.val,
                                            !.imsak = imsak.val]))))))))))

DefaultIshaAngle == 18

\* The high-latitude portion of the night for Fajr or Isha.
night_portion(rule, angle, night_time) ==
    CASE rule = "NightMiddle" -> FScale(night_time, 1, 2)
      [] rule = "OneSeventh" -> FScale(night_time, 1, 7)
      [] rule = "AngleBased" ->
             IF IsNaN(angle) \/ IsNaN(night_time) THEN NaN
             ELSE RoundDiv(RoundDiv(angle, TableStep) * night_time, 600)

\* The comparison of the high-latitude test turned round.
needs_adjustment_below(value, diff, portion) ==
    IsNaN(value) \/ FLt(fix_hour(diff), portion)

\* if value.is_nan() || fix_hour(diff) > portion
needs_adjustment(value, diff, portion) == IsNaN(value) \/ FGt(fix_hour(diff), portion)

adjust_high_latitudes(ms, times, rule) ==
    LET fajr_angle == ms.fajr
        isha_angle == IF ms.isha.kind = "Angle" THEN ms.isha.v ELSE Deg(DefaultIshaAngle, 0)
        night_time == fix_hour(FSub(times.sunrise, times.sunset))
        fajr_portion == night_portion(rule, fajr_angle, night_time)
        isha_portion == night_portion(rule, isha_angle, night_time)
        fajr == IF needs_adjustment(times.fajr, FSub(times.sunrise, times.fajr), fajr_portion)
                THEN FSub(times.sunrise, fajr_portion) ELSE times.fajr
        isha == IF needs_adjustment(times.isha, FSub(times.isha, times.sunset), isha_portion)
                THEN FAdd(times.sunset, isha_portion) ELSE times.isha
    IN  [times EXCEPT !.fajr = fajr, !.isha = isha]

\* if let Some(rule) = self.method_settings.high_lat
apply_high_lat(ms, times) ==
    IF ms.high_lat = NoRule THEN times ELSE adjust_high_latitudes(ms, times, ms.high_lat)

\* Midnight and the thirds measured over the day, from sunrise to sunset,
\* in place of the night.
night_phases_of_day(ms, times) ==
    LET day_length == fix_hour(FSub(times.sunset, times.sunrise))
    IN  [times EXCEPT !.midnight = FAdd(times.sunset, FScale(day_length, 1, 2)),
                      !.first_third = FAdd(times.sunset, FScale(day_length, 1, 3)),
                      !.last_third = FAdd(times.sunset, FScale(day_length, 2, 3))]

\* Midnight and the thirds of the night.
night_phases(ms, times) ==
    LET night_length == fix_hour(FSub(times.sunrise, times.sunset))
        midnight == IF ms.midnight = "Standard"
                    THEN FAdd(times.sunset, FScale(night_length, 1, 2))
                    ELSE FAdd(times.sunset,
                              FScale(fix_hour(FSub(times.fajr, times.sunset)), 1, 2))
    IN  [times EXCEPT !.midnight = midnight,
                      !.first_third = FAdd(times.sunset, FScale(night_length, 1, 3)),
                      !.last_third = FAdd(times.sunset, FScale(night_length, 2, 3))]

\* The longitude adjustment of the eight times of the day only, with the
\* Dhuhr offset.
longitude_adjust_day_only(calc, times) ==
    LET lng_diff == DegToHours(calc.coordinates.longitude)
    IN  [f \in FieldSet |->
            IF f = "dhuhr"
            THEN fix_hour(FAdd(FSub(times[f], lng_diff),
                               MinutesToHours(calc.method_settings.dhuhr)))
            ELSE IF f \in {"midnight", "first_third", "last_third"} THEN fix_hour(times[f])
            ELSE fix_hour(FSub(times[f], lng_diff))]

\* The longitude adjustment of every field, and the Dhuhr offset.
longitude_adjust(calc, times) ==
    LET lng_diff == DegToHours(calc.coordinates.longitude)
    IN  [f \in FieldSet |->
            IF f = "dhuhr"
            THEN fix_hour(FAdd(FSub(times[f], lng_diff),
                               MinutesToHours(calc.method_settings.dhuhr)))
            ELSE fix_hour(FSub(times[f], lng_diff))]

compute_times(calc, date) ==
    Bind(sun_position(julian_date(date)), LAMBDA sp :
    Bind(raw_times(calc, sp), LAMBDA raw :
        IF ~raw.ok THEN raw
        ELSE Bind(apply_high_lat(calc.method_settings, raw.val), LAMBDA adjusted :
             Bind(night_phases(calc.method_settings, adjusted), LAMBDA phased :
                 Ok(longitude_adjust(calc, phased))))))

(***************************************************************************)
(* calculations.rs: formatting and calculate_prayer_times                  *)
(***************************************************************************)
\* The string "Invalid Time".
InvalidTime == [valid |-> FALSE, year |-> 0, month |-> 0, day |-> 0, hour |-> 0, minute |-> 0]

\* The string format("%d/%m/%Y %H:%M") prints for a local day and minute of day.
TimeString(day, minute) ==
    LET c == civil_from_days(day)
    IN  [valid |-> TRUE, year |-> c.year, month |-> c.month, day |-> c.day,
         hour |-> minute \div MinPerHour, minute |-> minute % MinPerHour]

\* format_time with the minutes wrapped inside the date.
format_time_same_day(time, date, adjustment) ==
    IF IsNaN(time) THEN InvalidTime
    ELSE TimeString(date_naive(date),
                    (RoundDiv(time, SecPerMinute) + adjustment) % MinPerDay)

\* format_time: NaN is "Invalid Time"; otherwise midnight of the date plus
\* round(time * 60) + adjustment minutes, printed without its offset.
format_time(time, date, adjustment) ==
    IF IsNaN(time) THEN InvalidTime
    ELSE LET total_minutes == RoundDiv(time, SecPerMinute) + adjustment
             dt_with_mins  == date_naive(date) * MinPerDay + total_minutes
         IN  TimeString(dt_with_mins \div MinPerDay, dt_with_mins % MinPerDay)

PanicError == "panic"
I16Min == -32768
I16Max == 32767

\* calculate_hijri_date: Ok, the Calculation error (a year outside i16, or a
\* year the crate does not convert), or the panic of unwrapping a negative year
\* as usize.
calculate_hijri_date(day) ==
    LET year == civil_from_days(day).year
    IN  IF year < I16Min \/ year > I16Max THEN Err(CalculationError, hijri_of_day(0))
        ELSE IF year < 0 THEN Err(PanicError, hijri_of_day(0))
        ELSE IF year < GregorianMinYear \/ year > GregorianMaxYear
             THEN Err(CalculationError, hijri_of_day(0))
        ELSE Ok(hijri_of_day(day))

NoAdjustments == [f \in FieldSet |-> 0]

PrayerTimes(strings, date, hijri) == [times |-> strings, date |-> date, hijri |-> hijri]

DefaultRecord == PrayerTimes([f \in FieldSet |-> InvalidTime], format_date(0), hijri_of_day(0))

calculate_prayer_times(calc, date) ==
    Bind(compute_times(calc, date), LAMBDA times :
        IF ~times.ok THEN Err(times.err, DefaultRecord)
        ELSE Bind(calculate_hijri_date(date_naive(date)), LAMBDA hijri :
            IF ~hijri.ok THEN Err(hijri.err, DefaultRecord)
            ELSE Ok(PrayerTimes([f \in FieldSet |->
                                    format_time(times.val[f], date, calc.adjustments[f])],
                                format_date(date_naive(date)), hijri.val))))

(***************************************************************************)
(* models.rs, validation.rs, services.rs: the request and its validation   *)
(***************************************************************************)
None == "None"

Some(v) == [some |-> TRUE, v |-> v]

Absent(v) == [some |-> FALSE, v |-> v]

unwrap_or(opt, default) == IF opt.some THEN opt.v ELSE default

\* A timezone string: "+HH:MM" / "-HH:MM" as its sign and two numbers, or a name.
Offset(sign, hours, minutes) ==
    [kind |-> "offset", sign |-> sign, hours |-> hours, minutes |-> minutes, name |-> None]

ZoneName(name) ==
    [kind |-> "name", sign |-> 1, hours |-> 0, minutes |-> 0, name |-> name]

\* chrono_tz names the model knows, with their offsets in minutes (zones
\* without daylight saving, so the offset does not depend on Utc::now()).
KnownZones == {"UTC", "Asia/Karachi", "Asia/Riyadh"}

zone_offset(name) ==
    CASE name = "UTC" -> 0 [] name = "Asia/Karachi" -> 300 [] name = "Asia/Riyadh" -> 180

TimezoneParsingError == "TimezoneParsing"
ValidationError == "Validation"
InvalidInputError == "InvalidInput"
NotFoundError == "NotFound"
DateParsingError == "DateParsing"

\* parse_timezone_offset (the same code in validation.rs and services.rs):
\* the offset east of UTC, in minutes.
parse_timezone_offset(tz) ==
    IF tz.hours < -12 \/ tz.hours > 14 THEN Err(TimezoneParsingError, 0)
    ELSE IF tz.minutes < 0 \/ tz.minutes > 59 THEN Err(TimezoneParsingError, 0)
    ELSE Ok((tz.hours * MinPerHour + tz.minutes) * tz.sign)

parse_timezone_name(tz) ==
    IF tz.name \in KnownZones THEN Ok(zone_offset(tz.name))
    ELSE Err(TimezoneParsingError, 0)

parse_timezone(tz) ==
    IF tz.kind = "offset" THEN parse_timezone_offset(tz) ELSE parse_timezone_name(tz)

validate_timezone(tz) == parse_timezone(tz).ok

\* A latitude check that turns the poles away.
validate_latitude_open(lat) == ~(lat <= Deg(-90, 0) \/ lat >= Deg(90, 0))

validate_latitude(lat) == ~(lat < Deg(-90, 0) \/ lat > Deg(90, 0))

validate_longitude(lng) == ~(lng < Deg(-180, 0) \/ lng > Deg(180, 0))

validate_elevation(elevation) == ~(elevation < -500 \/ elevation > 10000)

\* PrayerTimesRequest::validate (the derive of models.rs)
validate(request) ==
    /\ validate_latitude(request.latitude)
    /\ validate_longitude(request.longitude)
    /\ (request.elevation.some => validate_elevation(request.elevation.v))
    /\ validate_timezone(request.timezone)

\* Timespan variants as one record shape.
NoDate == [day |-> 0, month |-> 0, year |-> 0]

DateStr(day, month, year) == [day |-> day, month |-> month, year |-> year]

Timespan(kind, days, date, month, year) ==
    [kind |-> kind, days |-> days, date |-> date, month |-> month, year |-> year]

DaysFromToday(days) == Timespan("DaysFromToday", days, NoDate, None, 0)

DaysFromDate(date, days) == Timespan("DaysFromDate", days, date, None, 0)

Month(name, year) == Timespan("Month", 0, NoDate, name, year)

GregorianYear(year) == Timespan("GregorianYear", 0, NoDate, None, year)

HijriYear(year) == Timespan("HijriYear", 0, NoDate, None, year)

\* impl Default for Timespan
DefaultTimespan == DaysFromToday(1)

\* A custom twilight string: "<n>" or "<n> min"; ok is whether <n> parses as
\* f64.  n is whole degrees or whole minutes (or NaN for the text "NaN").
Text(n, min, ok) == [n |-> n, min |-> min, ok |-> ok]

CustomMethod(fajr, isha, maghrib, imsak, dhuhr, midnight, shafaq, school, high_lat) ==
    [fajr |-> fajr, isha |-> isha, maghrib |-> maghrib, imsak |-> imsak, dhuhr |-> dhuhr,
     midnight |-> midnight, shafaq |-> shafaq, school |-> school, high_lat |-> high_lat]

\* Option<Midnight>, Option<Shafaq>, Option<School> and Option<HighLatitudeRule>
\* are the variant's name or None.
NoCustom ==
    CustomMethod(Absent(0), Absent(Text(0, FALSE, TRUE)), Absent(Text(0, FALSE, TRUE)),
                 Absent(Text(0, FALSE, TRUE)), Absent(0), None, None, None, NoRule)

PrayerTimesRequest(latitude, longitude, elevation, method, custom, country, timezone, timespan, adjustments, high_lat, school) ==
    [latitude |-> latitude, longitude |-> longitude, elevation |-> elevation,
     method |-> method, custom |-> custom, country |-> country, timezone |-> timezone,
     timespan |-> timespan, adjustments |-> adjustments, high_lat |-> high_lat,
     school |-> school]

(***************************************************************************)
(* handlers.rs and preferred.rs: method resolution                         *)
(***************************************************************************)
\* str::to_lowercase on the strings the model's requests carry.
to_lowercase(s) ==
    CASE s = "February" -> "february"
      [] s = "FEB" -> "feb"
      [] s = "April" -> "april"
      [] s = "Saudi Arabia" -> "saudi arabia"
      [] s = "UK" -> "uk"
      [] s = "SAUDI ARABIA" -> "saudi arabia"
      [] s = "Atlantis" -> "atlantis"
      [] OTHER -> s

\* load_default_mappings
PreferredDefaults ==
    <<<<"saudi arabia", "Makkah">>, <<"uae", "Dubai">>, <<"united arab emirates", "Dubai">>,
      <<"kuwait", "Kuwait">>, <<"qatar", "Qatar">>, <<"iran", "Tehran">>,
      <<"iraq", "Karachi">>, <<"syria", "Karachi">>, <<"lebanon", "Karachi">>,
      <<"jordan", "Karachi">>, <<"palestine", "Karachi">>, <<"israel", "Karachi">>,
      <<"pakistan", "Karachi">>, <<"india", "Karachi">>, <<"bangladesh", "Karachi">>,
      <<"afghanistan", "Karachi">>, <<"sri lanka", "Karachi">>, <<"maldives", "Karachi">>,
      <<"malaysia", "Jakim">>, <<"singapore", "Singapore">>, <<"indonesia", "Karachi">>,
      <<"brunei", "Singapore">>, <<"thailand", "Singapore">>, <<"egypt", "Egypt">>,
      <<"libya", "Egypt">>, <<"tunisia", "Egypt">>, <<"algeria", "Egypt">>,
      <<"morocco", "Egypt">>, <<"sudan", "Karachi">>, <<"south africa", "Karachi">>,
      <<"nigeria", "Karachi">>, <<"turkey", "Diyanet">>, <<"france", "Uoif">>,
      <<"germany", "Mwl">>, <<"uk", "Mwl">>, <<"united kingdom", "Mwl">>,
      <<"netherlands", "Mwl">>, <<"belgium", "Mwl">>, <<"sweden", "Mwl">>,
      <<"norway", "Mwl">>, <<"denmark", "Mwl">>, <<"russia", "Russia">>,
      <<"usa", "Isna">>, <<"united states", "Isna">>, <<"canada", "Isna">>,
      <<"mexico", "Isna">>>>

\* A lookup that leaves the country's letters as they are written.
preferred_get_exact(country) ==
    LET found == {i \in 1..Len(PreferredDefaults) : PreferredDefaults[i][1] = country}
    IN  IF found = {} THEN Err(NotFoundError, None)
        ELSE Ok(PreferredDefaults[CHOOSE i \in found : TRUE][2])

\* PreferredMethodMap::get
preferred_get(country) ==
    LET country_lower == to_lowercase(country)
        found == {i \in 1..Len(PreferredDefaults) : PreferredDefaults[i][1] = country_lower}
    IN  IF found = {} THEN Err(NotFoundError, None)
        ELSE Ok(PreferredDefaults[CHOOSE i \in found : TRUE][2])

parse_minute_or_angle(value) ==
    IF ~value.ok THEN Err(InvalidInputError, Minute(0))
    ELSE IF value.min THEN Ok(Minute(value.n))
    ELSE Ok(Angle(IF IsNaN(value.n) THEN NaN ELSE Deg(value.n, 0)))

(***************************************************************************)
(* Strings character by character: a &str is the sequence of its chars     *)
(***************************************************************************)
Digits == <<"0", "1", "2", "3", "4", "5", "6", "7", "8", "9">>

is_digit(c) == \E d \in 1..Len(Digits) : Digits[d] = c

digit_value(c) == (CHOOSE d \in 1..Len(Digits) : Digits[d] = c) - 1

\* char::to_ascii_lowercase on the letters the model's strings carry.
to_ascii_lowercase(c) ==
    CASE c = "N" -> "n" [] c = "A" -> "a" [] c = "M" -> "m" [] c = "I" -> "i" [] OTHER -> c

\* str::ends_with
ends_with(s, suffix) ==
    /\ Len(s) >= Len(suffix)
    /\ SubSeq(s, Len(s) - Len(suffix) + 1, Len(s)) = suffix

\* str::starts_with
starts_with(s, prefix) ==
    /\ Len(s) >= Len(prefix)
    /\ SubSeq(s, 1, Len(prefix)) = prefix

is_whitespace(c) == c = " "

\* str::trim_start, str::trim_end, str::trim
RECURSIVE trim_start(_)
trim_start(s) ==
    IF s # <<>> /\ is_whitespace(Head(s)) THEN trim_start(Tail(s)) ELSE s

RECURSIVE trim_end(_)
trim_end(s) ==
    IF s # <<>> /\ is_whitespace(s[Len(s)]) THEN trim_end(SubSeq(s, 1, Len(s) - 1)) ELSE s

trim(s) == trim_end(trim_start(s))

\* The leading run of characters that are not whitespace.
RECURSIVE take_word(_)
take_word(s) ==
    IF s = <<>> \/ is_whitespace(Head(s)) THEN <<>> ELSE <<Head(s)>> \o take_word(Tail(s))

\* A first token that is the whole string, blanks included.
next_unsplit(s) == IF s = <<>> THEN Absent(<<>>) ELSE Some(s)

\* str::split_whitespace().next()
split_whitespace_next(s) ==
    LET rest == trim_start(s)
    IN  IF rest = <<>> THEN Absent(<<>>) ELSE Some(take_word(rest))

\* The value of a run of decimal digits.
RECURSIVE digits_value(_)
digits_value(s) ==
    IF s = <<>> THEN 0 ELSE digits_value(SubSeq(s, 1, Len(s) - 1)) * 10 + digit_value(s[Len(s)])

all_digits(s) == s # <<>> /\ \A i \in 1..Len(s) : is_digit(s[i])

\* <f64 as FromStr>::from_str on strings without '.', 'e' or "inf": an
\* optional sign, then "nan" in any letter case or decimal digits.
parse_f64(s) ==
    LET signed == s # <<>> /\ Head(s) \in {"+", "-"}
        body   == IF signed THEN Tail(s) ELSE s
        lower  == [i \in 1..Len(body) |-> to_ascii_lowercase(body[i])]
    IN  IF lower = <<"n", "a", "n">> THEN Ok(NaN)
        ELSE IF all_digits(body)
        THEN Ok(IF signed /\ Head(s) = "-" THEN -digits_value(body) ELSE digits_value(body))
        ELSE Err(InvalidInputError, 0)

\* <i32 as FromStr>::from_str: an optional sign, then decimal digits.
parse_i32(s) ==
    LET signed == s # <<>> /\ Head(s) \in {"+", "-"}
        body   == IF signed THEN Tail(s) ELSE s
    IN  IF all_digits(body)
        THEN Ok(IF signed /\ Head(s) = "-" THEN -digits_value(body) ELSE digits_value(body))
        ELSE Err(TimezoneParsingError, 0)

\* str::split(sep): the pieces between the separators, at least one.
RECURSIVE split(_, _)
split(s, sep) ==
    IF \A i \in 1..Len(s) : s[i] # sep THEN <<s>>
    ELSE LET at == CHOOSE i \in 1..Len(s) : s[i] = sep /\ \A j \in 1..(i - 1) : s[j] # sep
         IN  <<SubSeq(s, 1, at - 1)>> \o split(SubSeq(s, at + 1, Len(s)), sep)

\* parse_timezone_offset on the string itself: the text after the first
\* character is split at ':', its first two pieces are parsed as i32 and the
\* sign is taken from the first character.
parse_timezone_offset_str(timezone) ==
    LET parts   == split(Tail(timezone), ":")
        hours   == parse_i32(parts[1])
        minutes == parse_i32(IF Len(parts) >= 2 THEN parts[2] ELSE <<"0">>)
    IN  IF ~hours.ok THEN Err(TimezoneParsingError, 0)
        ELSE IF ~minutes.ok THEN Err(TimezoneParsingError, 0)
        ELSE parse_timezone_offset(Offset(IF starts_with(timezone, <<"-">>) THEN -1 ELSE 1,
                                          hours.val, minutes.val))

\* The spelling of the zone names the model knows.
ZoneSpelling(name) ==
    CASE name = "UTC" -> <<"U", "T", "C">>
      [] name = "Asia/Karachi" -> <<"A", "s", "i", "a", "/", "K", "a", "r", "a", "c", "h", "i">>
      [] name = "Asia/Riyadh" -> <<"A", "s", "i", "a", "/", "R", "i", "y", "a", "d", "h">>

\* timezone.parse::<Tz>() and the zone's offset
parse_timezone_name_str(timezone) ==
    IF \E name \in KnownZones : ZoneSpelling(name) = timezone
    THEN Ok(zone_offset(CHOOSE name \in KnownZones : ZoneSpelling(name) = timezone))
    ELSE Err(TimezoneParsingError, 0)

\* TimezoneParsing::parse_timezone (services.rs)
parse_timezone_str(timezone) ==
    LET trimmed == trim(timezone)
    IN  IF starts_with(trimmed, <<"+">>) \/ starts_with(trimmed, <<"-">>)
        THEN parse_timezone_offset_str(trimmed)
        ELSE parse_timezone_name_str(trimmed)

\* validate_timezone (validation.rs): the string is not trimmed.
validate_timezone_str(timezone) ==
    LET parsed == IF starts_with(timezone, <<"+">>) \/ starts_with(timezone, <<"-">>)
                  THEN parse_timezone_offset_str(timezone)
                  ELSE parse_timezone_name_str(timezone)
    IN  IF parsed.ok THEN Ok(0) ELSE parsed

\* The reading of a twilight string that parse_minute_or_angle starts with:
\* whether it ends in "min", and the number in it.
read_minute_or_angle(value) ==
    LET min    == ends_with(value, <<"m", "i", "n">>)
        token  == IF min THEN unwrap_or(split_whitespace_next(value), <<"0">>) ELSE value
        number == parse_f64(token)
    IN  Text(number.val, min, number.ok)

\* parse_minute_or_angle on a string given character by character.
parse_minute_or_angle_str(value) == parse_minute_or_angle(read_minute_or_angle(value))

\* Overrides that take the school from the request and nothing else.
apply_overrides_school_only(settings, request) ==
    [settings EXCEPT !.school = IF request.school # None THEN request.school ELSE @]

\* The request-level overrides of high_lat and school.
apply_overrides(settings, request) ==
    [settings EXCEPT
        !.high_lat = IF request.high_lat # None THEN request.high_lat ELSE @,
        !.school = IF request.school # None THEN request.school ELSE @]

NoSettings == Named(0, Angle(0), "Standard", Minute(0), None)

\* determine_method: (settings, Some(method) or None)
determine_method(request) ==
    IF request.custom.some
    THEN LET custom  == request.custom.v
             isha    == parse_minute_or_angle(unwrap_or(custom.isha, Text(18, FALSE, TRUE)))
             maghrib == parse_minute_or_angle(unwrap_or(custom.maghrib, Text(0, TRUE, TRUE)))
             imsak   == parse_minute_or_angle(unwrap_or(custom.imsak, Text(10, TRUE, TRUE)))
         IN  IF ~isha.ok \/ ~maghrib.ok \/ ~imsak.ok
             THEN Err(InvalidInputError, [settings |-> NoSettings, method |-> None])
             ELSE Ok([settings |-> apply_overrides(
                          MethodSettings(unwrap_or(custom.fajr, Deg(18, 0)), isha.val,
                              IF custom.midnight = None THEN "Standard" ELSE custom.midnight,
                              maghrib.val, imsak.val, unwrap_or(custom.dhuhr, 0),
                              custom.shafaq,
                              IF custom.school = None THEN "Standard" ELSE custom.school,
                              custom.high_lat), request),
                      method |-> None])
    ELSE LET standard_method ==
                 IF request.method # None THEN Ok(request.method)
                 ELSE IF request.country # None THEN preferred_get(request.country)
                 ELSE Err(InvalidInputError, None)
         IN  IF ~standard_method.ok
             THEN Err(standard_method.err, [settings |-> NoSettings, method |-> None])
             ELSE Ok([settings |-> apply_overrides(to_method_settings(standard_method.val),
                                                   request),
                      method |-> standard_method.val])

\* create_cache_key: the hash input, field by field (the 64-bit hash itself is
\* taken as injective).
create_cache_key(request) ==
    [latitude |-> request.latitude, longitude |-> request.longitude,
     elevation |-> unwrap_or(request.elevation, 0), method |-> request.method,
     country |-> request.country, timezone |-> request.timezone,
     high_lat |-> request.high_lat, school |-> request.school,
     custom |-> request.custom, adjustments |-> request.adjustments,
     timespan |-> request.timespan]

(***************************************************************************)
(* handlers.rs: time spans                                                 *)
(***************************************************************************)
is_leap_year(year) == (year % 4 = 0 /\ year % 100 # 0) \/ (year % 400 = 0)

days_in_month(year, month) ==
    IF month \in {1, 3, 5, 7, 8, 10, 12} THEN Ok(31)
    ELSE IF month \in {4, 6, 9, 11} THEN Ok(30)
    ELSE IF month = 2 THEN Ok(IF is_leap_year(year) THEN 29 ELSE 28)
    ELSE Err(InvalidInputError, 0)

MonthNames ==
    <<{"january", "jan"}, {"february", "feb"}, {"march", "mar"}, {"april", "apr"}, {"may"},
      {"june", "jun"}, {"july", "jul"}, {"august", "aug"}, {"september", "sep"},
      {"october", "oct"}, {"november", "nov"}, {"december", "dec"}>>

parse_month_name(month_name) ==
    LET lower == to_lowercase(month_name)
        found == {m \in 1..Len(MonthNames) : lower \in MonthNames[m]}
    IN  IF found = {} THEN Err(InvalidInputError, 0) ELSE Ok(CHOOSE m \in found : TRUE)

\* NaiveDate::from_ymd_opt: Some(day number) for a date of the calendar.
from_ymd_opt(year, month, day) ==
    IF month \notin 1..12 \/ day < 1 THEN Absent(0)
    ELSE LET first == days_from_civil(year, month, 1)
             next  == IF month = 12 THEN days_from_civil(year + 1, 1, 1)
                      ELSE days_from_civil(year, month + 1, 1)
         IN  IF first + day - 1 < next THEN Some(first + day - 1) ELSE Absent(0)

\* HijriDate::from_hijri(year, 1, 1) as the Gregorian day it names.
from_hijri(hijri_year) ==
    IF hijri_year < HijriMinYear \/ hijri_year > HijriMaxYear THEN Err(DateParsingError, 0)
    ELSE Ok(hijri_new_year(hijri_year))

HijriYearDays == 355

ParsedSpan(start, day_count) == [start |-> start, day_count |-> day_count]

\* parse_timespan; utc_now is the value Utc::now() returns to this call.
parse_timespan(timespan, timezone, utc_now) ==
    LET fail(e) == Err(e, ParsedSpan(DateTime(0, timezone), 0))
    IN  CASE timespan.kind = "DaysFromToday" ->
                 Ok(ParsedSpan(DateTime(utc_now, timezone),
                               IF timespan.days = 1 THEN 2 ELSE timespan.days))
          [] timespan.kind = "DaysFromDate" ->
                 LET date == from_ymd_opt(timespan.date.year, timespan.date.month,
                                          timespan.date.day)
                 IN  IF ~date.some THEN fail(DateParsingError)
                     ELSE Ok(ParsedSpan(local_noon(date.v, timezone), timespan.days))
          [] timespan.kind = "Month" ->
                 LET month == parse_month_name(timespan.month)
                 IN  IF ~month.ok THEN fail(month.err)
                     ELSE LET start == from_ymd_opt(timespan.year, month.val, 1)
                              days  == days_in_month(timespan.year, month.val)
                          IN  IF ~start.some THEN fail(DateParsingError)
                              ELSE IF ~days.ok THEN fail(days.err)
                              ELSE Ok(ParsedSpan(local_noon(start.v, timezone), days.val))
          [] timespan.kind = "GregorianYear" ->
                 LET start == from_ymd_opt(timespan.year, 1, 1)
                 IN  IF ~start.some THEN fail(DateParsingError)
                     ELSE Ok(ParsedSpan(local_noon(start.v, timezone),
                                        IF is_leap_year(timespan.year) THEN 366 ELSE 365))
          [] timespan.kind = "HijriYear" ->
                 LET hijri_start == from_hijri(timespan.year)
                 IN  IF ~hijri_start.ok THEN fail(hijri_start.err)
                     ELSE Ok(ParsedSpan(local_noon(hijri_start.val, timezone),
                                        HijriYearDays))

MaxDayCount == 366

\* The cap one day lower.
exceeds_limit_inclusive(day_count) == day_count >= MaxDayCount

\* if day_count > 366
exceeds_limit(day_count) == day_count > MaxDayCount

\* No span has its extra day removed.
is_single_day_never(timespan) == FALSE

\* if let Timespan::DaysFromToday(1) = timespan
is_single_day(timespan) == timespan.kind = "DaysFromToday" /\ timespan.days = 1

(***************************************************************************)
(* handlers.rs: next prayer; calculations.rs: qibla                        *)
(***************************************************************************)
NextNames == <<"Imsak", "Fajr", "Dhuhr", "Asr", "Maghrib", "Isha">>

NextFields == <<"imsak", "fajr", "dhuhr", "asr", "maghrib", "isha">>

\* The directives of "%d/%m/%Y %H:%M": a date and a time of day, no offset.
NextPrayerFormat == {"%d", "%m", "%Y", "%H", "%M"}

\* The minute a printed date and time names on the local time line.
naive_minutes(s) ==
    days_from_civil(s.year, s.month, s.day) * MinPerDay + s.hour * MinPerHour + s.minute

\* chrono::DateTime::<FixedOffset>::parse_from_str: the text must match the
\* format and the parsed fields must include an offset (else ParseError
\* NotEnough); strings of this program carry no offset text.
parse_from_str(s, format) ==
    IF ~s.valid THEN Err("Invalid", 0)
    ELSE IF "%z" \notin format THEN Err("NotEnough", 0)
    ELSE Ok(naive_minutes(s))

NoNextPrayer == [some |-> FALSE, name |-> None, time |-> InvalidTime]

NextPrayer(name, time) == [some |-> TRUE, name |-> name, time |-> time]

\* calculate_next_prayer: the first (day, prayer) in scan order whose string
\* parses to an instant after start_date.
calculate_next_prayer(timespan, start_date, prayers) ==
    IF timespan.kind # "DaysFromToday" THEN NoNextPrayer
    ELSE LET now  == start_date
             hit(i, k) ==
                 LET prayer_time == parse_from_str(prayers[i].times[NextFields[k]],
                                                   NextPrayerFormat)
                 IN  prayer_time.ok /\ prayer_time.val > now.utc
             hits == {p \in (1..Len(prayers)) \X (1..Len(NextNames)) : hit(p[1], p[2])}
         IN  IF hits = {} THEN NoNextPrayer
             ELSE LET first == CHOOSE p \in hits : \A q \in hits :
                                   p[1] < q[1] \/ (p[1] = q[1] /\ p[2] <= q[2])
                  IN  NextPrayer(NextNames[first[2]],
                                 prayers[first[1]].times[NextFields[first[2]]])

KaabaLat == 214225
KaabaLng == 398252

\* The coarsest |x| for which the quotient y / x below is formed.
MinCosine == 100

\* rtd(atan2(sin(d), x)) for |d| below half a table step and |x| >= MinCosine.
\* The table's sine of d is 0; the sine of so small an angle is the angle in
\* radians, and the arctangent of so small a quotient is the quotient, so the
\* result is d / x in d's own unit, in the quadrant of x.
atan2_near(d, x) ==
    LET small == RoundDiv(d * TrigScale, Abs(x))
    IN  IF x > 0 THEN small
        ELSE Sign(d) * (2 * TableQuarter * TableStep - Abs(small))

\* calculate_qibla_direction, in AngUnit
calculate_qibla_direction(calc) ==
    LET lat1 == calc.coordinates.latitude
        dlng == KaabaLng - calc.coordinates.longitude
        y    == sin_deg(dlng)
        tan2 == RoundDiv(sin_deg(KaabaLat) * TrigScale, cos_deg(KaabaLat))
        x    == FSub(FMul(cos_deg(lat1), tan2), FMul(sin_deg(lat1), cos_deg(dlng)))
    IN  IF dlng # 0 /\ 2 * Abs(dlng) < TableStep /\ Abs(x) >= MinCosine
        THEN fix_angle(atan2_near(dlng, x))
        ELSE fix_angle(atan2_deg(y, x))

(***************************************************************************)
(* qibla-api/src/calculations.rs: QiblaCalculator                          *)
(*                                                                         *)
(* Coordinates are in units of 1e-7 degree, the last decimal of            *)
(* KAABA_LONGITUDE; a bearing is in units of a quarter of 1e-6 degree, so  *)
(* that the rounding to six decimals has something to round.               *)
(***************************************************************************)
CoordUnit == 10000000
BearingUnit == 4000000

KAABA_LATITUDE == 214224779
KAABA_LONGITUDE == 398251832

QiblaCalculator(latitude, longitude) == [latitude |-> latitude, longitude |-> longitude]

\* RoundDiv for an even d, formed without doubling n.
RoundHalf(n, d) == Sign(n) * ((Abs(n) + d \div 2) \div d)

\* A coordinate at the resolution of the sine table's argument.
ToAngUnit(a) == RoundHalf(a, CoordUnit \div AngUnit)

RECURSIVE powi(_, _)
powi(base, n) == IF n = 0 THEN 1 ELSE base * powi(base, n - 1)

\* (value * multiplier).round() / multiplier, multiplier = 10^decimal_places
round_to_precision(value, decimal_places) ==
    LET grid == BearingUnit \div powi(10, decimal_places)
    IN  RoundHalf(value, grid) * grid

\* The differences of longitude that are resolved to the unit: beyond them
\* the bearing is the table's, to a tenth of a degree.
NearMeridian == 10000

calculate_bearing_to_kaaba(self) ==
    LET lat1 == ToAngUnit(self.latitude)
        lat2 == ToAngUnit(KAABA_LATITUDE)
        dlon == KAABA_LONGITUDE - self.longitude
        x    == FSub(FMul(cos_deg(lat1), sin_deg(lat2)),
                     FMul(FMul(sin_deg(lat1), cos_deg(lat2)), cos_deg(ToAngUnit(dlon))))
        bearing_degrees ==
            IF dlon # 0 /\ Abs(dlon) <= NearMeridian /\ Abs(x) >= MinCosine
            THEN \* y = sin(dlon) * cos(lat2) is dlon * cos(lat2) in radians and
                 \* atan2(y, x) is y / x: dlon * cos(lat2) / x degrees
                 \* (BearingUnit / CoordUnit = 2 / 5)
                 LET small == RoundDiv(dlon * cos_deg(lat2) * 2, Abs(x) * 5)
                 IN  IF x > 0 THEN small
                     ELSE Sign(dlon) * (FullCircle * (BearingUnit \div 2) - Abs(small))
            ELSE atan2_deg(FMul(sin_deg(ToAngUnit(dlon)), cos_deg(lat2)), x)
                     * (BearingUnit \div AngUnit)
        normalized == IF bearing_degrees < 0 THEN bearing_degrees + FullCircle * BearingUnit
                      ELSE bearing_degrees
    IN  round_to_precision(normalized, 6)

(***************************************************************************)
(* handlers.rs: prayer_times_handler as a state machine                    *)
(*                                                                         *)
(* Each task runs one handler invocation at a time; its await points and   *)
(* its reads of the clock are the step boundaries.  The cache is the       *)
(* Redis store shared by all tasks.                                        *)
(***************************************************************************)
VARIABLES
    now,        \* Utc::now(), minutes since the Unix epoch
    ticks,      \* clock advances so far
    cache,      \* Redis: set of [key, response, expires]
    served,     \* requests received so far
    pc,         \* per task: the handler's position
    request,    \* per task: the request being served
    frame,      \* per task: the handler's local variables
    prayers,    \* per task: the Vec the loop fills
    outcome,    \* per task: what the handler returned
    input,      \* compute_times: the calculator and the date
    stages,     \* compute_times: the times after each stage so far
    solved,     \* sun_angle_time: one call and its result
    call,       \* one call of a parsing or bearing function and its result
    clock,      \* the rate limiter's clock, seconds
    redis_counter,  \* Redis: per identifier, the rate_limit:<id> count and its expiry
    local_cache,    \* SimpleRateLimiter.local_cache: per identifier, (count, timestamp)
    limiter_pc,     \* per task: position inside check_rate_limit
    tally,      \* per identifier: calls begun, answered true, answered false,
                \* and the fixed window of 60 s its answered calls fall in
    zakat_calculations, \* Postgres: the ids of the user's rows of zakat_calculations
    zakat_cache,    \* Redis: per key of the user, the cached view
    zakat_pc,       \* per task: position and locals inside a ZakatService function
    zakat_log       \* the table after each write, the writes completed, calls begun

vars == <<now, ticks, cache, served, pc, request, frame, prayers, outcome,
          input, stages, solved, call, clock, redis_counter, local_cache,
          limiter_pc, tally, zakat_calculations, zakat_cache, zakat_pc, zakat_log>>

handler_vars == <<now, ticks, cache, served, pc, request, frame, prayers, outcome>>

calc_vars == <<input, stages, solved>>

limiter_vars == <<clock, redis_counter, local_cache, limiter_pc, tally>>

zakat_vars == <<zakat_calculations, zakat_cache, zakat_pc, zakat_log>>

Tasks == {"t1", "t2"}

MaxRequests == 2
MaxTicks == 2
ClockStep == 45
CacheTtl == 60

\* 31/10/2026 20:30 UTC: half an hour before midnight at +03:00.
StartInstant == days_from_civil(2026, 10, 31) * MinPerDay + 20 * MinPerHour + 30

MetaData(method, settings, timezone, adjustments, coordinates, calculation_time) ==
    [method |-> method, settings |-> settings, timezone |-> timezone,
     adjustments |-> adjustments, coordinates |-> coordinates,
     calculation_time |-> calculation_time]

PrayerTimesResponse(qibla_direction, next, days, meta) ==
    [qibla_direction |-> qibla_direction, next |-> next, prayers |-> days, meta |-> meta]

NoResponse ==
    PrayerTimesResponse(0, NoNextPrayer, <<>>,
        MetaData(None, NoSettings, Offset(1, 0, 0), Absent(NoAdjustments),
                 Coordinates(0, 0, 0), 0))

NoRequest ==
    PrayerTimesRequest(0, 0, Absent(0), None, Absent(NoCustom), None, Offset(1, 0, 0),
                       Absent(DefaultTimespan), Absent(NoAdjustments), None, None)

Frame(cache_key, timezone, method, timespan, start_date, day_count, calculator, i) ==
    [cache_key |-> cache_key, timezone |-> timezone, method |-> method,
     timespan |-> timespan, start_date |-> start_date, day_count |-> day_count,
     calculator |-> calculator, i |-> i]

NoCalculator == PrayerCalculator(Coordinates(0, 0, 0), NoSettings, NoAdjustments)

NoMethod == [settings |-> NoSettings, method |-> None]

NewFrame(req) ==
    Frame(create_cache_key(req), 0, NoMethod, DefaultTimespan, DateTime(0, 0), 0,
          NoCalculator, 0)

\* What the handler returned: status is "running", "ok", "err" or "panic".
Outcome(status, err, response, from_cache, cache_written) ==
    [status |-> status, err |-> err, response |-> response, from_cache |-> from_cache,
     cache_written |-> cache_written]

Running == Outcome("running", NoError, NoResponse, FALSE, FALSE)

Failed(err) == Outcome("err", err, NoResponse, FALSE, FALSE)

\* Redis GET: the live entry of a key, if any.
cache_get(key) ==
    LET live == {e \in cache : e.key = key /\ now < e.expires}
    IN  IF live = {} THEN Absent(NoResponse) ELSE Some((CHOOSE e \in live : TRUE).response)

\* Redis SETEX: replaces the key's entry.
cache_set(key, response, ttl) ==
    {e \in cache : e.key # key} \cup
        {[key |-> key, response |-> response, expires |-> now + ttl]}

HandlerInit ==
    /\ now = StartInstant
    /\ ticks = 0
    /\ cache = {}
    /\ served = 0
    /\ pc = [t \in Tasks |-> "idle"]
    /\ request = [t \in Tasks |-> NoRequest]
    /\ frame = [t \in Tasks |-> NewFrame(NoRequest)]
    /\ prayers = [t \in Tasks |-> <<>>]
    /\ outcome = [t \in Tasks |-> Running]

NoInput == [calc |-> NoCalculator, date |-> DateTime(0, 0)]

NoCall == [called |-> FALSE, angle |-> 0, direction |-> 1, result |-> Ok(0)]

CalcIdle ==
    /\ input = NoInput
    /\ stages = <<>>
    /\ solved = NoCall

\* No parsing or bearing function has been called.
NotCalled == [fn |-> "none", arg |-> <<>>, result |-> Ok(0)]

CallIdle == call = NotCalled

\* The x-forwarded-for / x-real-ip values of the clients, and the middleware's
\* default when a request carries neither header.
Identifiers == {"10.0.0.1", "unknown"}

NoCount == [count |-> 0, expires |-> 0]

NoEntry == [count |-> 0, timestamp |-> 0, present |-> FALSE]

\* SimpleRateLimiter::new on an empty Redis.
LimiterInit ==
    /\ clock = 0
    /\ redis_counter = [id \in Identifiers |-> NoCount]
    /\ local_cache = [id \in Identifiers |-> NoEntry]
    /\ limiter_pc = [t \in Tasks |-> [at |-> "idle", id |-> "unknown", count |-> 0,
                                      since |-> 0]]
    /\ tally = [id \in Identifiers |->
                   [begun |-> 0, allowed |-> 0, denied |-> 0, open |-> FALSE,
                    window |-> 0, limited |-> FALSE, late |-> FALSE]]

\* The keys ZakatService builds for one user: zakat_history:<user_id>,
\* zakat_stats:<user_id> and zakat_summary:<user_id>.
ZakatKeys == {"zakat_history", "zakat_stats", "zakat_summary"}

\* What a read builds from the rows of get_user_calculations and the
\* aggregates of get_calculation_stats.
NoView == [some |-> FALSE, calculations |-> {}, stats |-> 0]

ZakatIdle == [op |-> "none", at |-> "idle", view |-> NoView, hit |-> FALSE,
              settled |-> 0, wrote |-> 0, stale |-> FALSE, ok |-> TRUE]

\* ZakatService::new over an empty table and an empty Redis.
ZakatInit ==
    /\ zakat_calculations = {}
    /\ zakat_cache = [k \in ZakatKeys |-> NoView]
    /\ zakat_pc = [t \in Tasks |-> ZakatIdle]
    /\ zakat_log = [tables |-> <<{}>>, settled |-> 0, begun |-> 0, writes |-> 0]

\* ApiError::InvalidInput("Day count cannot exceed 366 days")
DayCountError == "InvalidInput: Day count cannot exceed 366 days"

\* An Err that does not leave the handler.
early_return_never(result) == FALSE

\* The `?` after calculate_prayer_times: an Err leaves the handler.
early_return(result) == ~result.ok

\* Json(request) arrives at a free task (one that has not served yet, or
\* has returned): request.validate() and create_cache_key.
Receive(t, r) ==
    /\ pc[t] \in {"idle", "done"}
    /\ served < MaxRequests
    /\ served' = served + 1
    /\ request' = [request EXCEPT ![t] = r]
    /\ frame' = [frame EXCEPT ![t] = NewFrame(r)]
    /\ prayers' = [prayers EXCEPT ![t] = <<>>]
    /\ IF validate(r)
       THEN /\ pc' = [pc EXCEPT ![t] = "cache_get"]
            /\ outcome' = [outcome EXCEPT ![t] = Running]
       ELSE /\ pc' = [pc EXCEPT ![t] = "done"]
            /\ outcome' = [outcome EXCEPT ![t] = Failed(ValidationError)]
    /\ UNCHANGED <<now, ticks, cache>>
    /\ UNCHANGED <<calc_vars, call, limiter_vars, zakat_vars>>

\* cache.get(&cache_key).await: a hit returns the cached response; a miss or
\* a Redis error goes on to the calculation.
CacheGet(t) ==
    /\ pc[t] = "cache_get"
    /\ \E redis_ok \in BOOLEAN :
          LET cached == cache_get(frame[t].cache_key)
          IN  IF redis_ok /\ cached.some
              THEN /\ pc' = [pc EXCEPT ![t] = "done"]
                   /\ outcome' = [outcome EXCEPT ![t] =
                                     Outcome("ok", NoError, cached.v, TRUE, FALSE)]
              ELSE /\ pc' = [pc EXCEPT ![t] = "prepare"]
                   /\ UNCHANGED outcome
    /\ UNCHANGED <<now, ticks, cache, served, request, frame, prayers>>
    /\ UNCHANGED <<calc_vars, call, limiter_vars, zakat_vars>>

\* From parse_timezone to PrayerCalculator::new.
Prepare(t) ==
    /\ pc[t] = "prepare"
    /\ LET req      == request[t]
           timezone == parse_timezone(req.timezone)
           coordinates == Coordinates(req.latitude, req.longitude,
                                      unwrap_or(req.elevation, 0))
           method   == determine_method(req)
           timespan == unwrap_or(req.timespan, DefaultTimespan)
           span     == parse_timespan(timespan, timezone.val, now)
           adjustments == unwrap_or(req.adjustments, NoAdjustments)
           fail(e)  == /\ pc' = [pc EXCEPT ![t] = "done"]
                       /\ outcome' = [outcome EXCEPT ![t] = Failed(e)]
                       /\ UNCHANGED frame
       IN  IF ~timezone.ok THEN fail(timezone.err)
           ELSE IF ~method.ok THEN fail(method.err)
           ELSE IF ~span.ok THEN fail(span.err)
           ELSE IF exceeds_limit(span.val.day_count) THEN fail(DayCountError)
           ELSE /\ pc' = [pc EXCEPT ![t] = "loop"]
                /\ frame' = [frame EXCEPT ![t] =
                      Frame(@.cache_key, timezone.val, method.val, timespan,
                            span.val.start, span.val.day_count,
                            PrayerCalculator(coordinates, method.val.settings,
                                             adjustments), 0)]
                /\ UNCHANGED outcome
    /\ UNCHANGED <<now, ticks, cache, served, request, prayers>>
    /\ UNCHANGED <<calc_vars, call, limiter_vars, zakat_vars>>

\* One iteration of `for i in 0..day_count`.
DayStep(t) ==
    /\ pc[t] = "loop"
    /\ frame[t].i < frame[t].day_count
    /\ \E current_date \in {plus_days(frame[t].start_date, frame[t].i)} :
       \E prayer_times \in {calculate_prayer_times(frame[t].calculator, current_date)} :
           IF early_return(prayer_times)
           THEN /\ pc' = [pc EXCEPT ![t] = "done"]
                /\ outcome' = [outcome EXCEPT ![t] =
                      IF prayer_times.err = PanicError
                      THEN Outcome("panic", PanicError, NoResponse, FALSE, FALSE)
                      ELSE Failed(prayer_times.err)]
                /\ UNCHANGED <<frame, prayers>>
           ELSE /\ prayers' = [prayers EXCEPT ![t] = Append(@, prayer_times.val)]
                /\ frame' = [frame EXCEPT ![t].i = @ + 1]
                /\ UNCHANGED <<pc, outcome>>
    /\ UNCHANGED <<now, ticks, cache, served, request>>
    /\ UNCHANGED <<calc_vars, call, limiter_vars, zakat_vars>>

\* After the loop: next prayer, qibla, metadata, the pop, the response.
Finish(t) ==
    /\ pc[t] = "loop"
    /\ frame[t].i >= frame[t].day_count
    /\ LET f    == frame[t]
           next_prayer == calculate_next_prayer(f.timespan, f.start_date, prayers[t])
           qibla_direction == calculate_qibla_direction(f.calculator)
           meta == MetaData(f.method.method, f.method.settings, request[t].timezone,
                            Some(f.calculator.adjustments), f.calculator.coordinates, now)
           kept == IF is_single_day(f.timespan)
                   THEN SubSeq(prayers[t], 1, Len(prayers[t]) - 1) ELSE prayers[t]
       IN  /\ prayers' = [prayers EXCEPT ![t] = kept]
           /\ outcome' = [outcome EXCEPT ![t] =
                 Outcome("running", NoError,
                         PrayerTimesResponse(qibla_direction, next_prayer, kept, meta),
                         FALSE, FALSE)]
    /\ pc' = [pc EXCEPT ![t] = "cache_set"]
    /\ UNCHANGED <<now, ticks, cache, served, request, frame>>
    /\ UNCHANGED <<calc_vars, call, limiter_vars, zakat_vars>>

\* cache.set(..., 3600 s).await, whose failure is only logged, then Ok.
CacheSet(t) ==
    /\ pc[t] = "cache_set"
    /\ \E redis_ok \in BOOLEAN :
          /\ cache' = IF redis_ok
                      THEN cache_set(frame[t].cache_key, outcome[t].response, CacheTtl)
                      ELSE cache
          /\ outcome' = [outcome EXCEPT ![t].status = "ok", ![t].cache_written = redis_ok]
    /\ pc' = [pc EXCEPT ![t] = "done"]
    /\ UNCHANGED <<now, ticks, served, request, frame, prayers>>
    /\ UNCHANGED <<calc_vars, call, limiter_vars, zakat_vars>>

\* The handler after a cache miss, run at one instant: from parse_timezone
\* to the response it returns and stores.
compute_response(req, utc_now) ==
    LET timezone == parse_timezone(req.timezone)
        coordinates == Coordinates(req.latitude, req.longitude, unwrap_or(req.elevation, 0))
        method   == determine_method(req)
        timespan == unwrap_or(req.timespan, DefaultTimespan)
        span     == parse_timespan(timespan, timezone.val, utc_now)
        adjustments == unwrap_or(req.adjustments, NoAdjustments)
    IN  IF ~timezone.ok THEN Err(timezone.err, NoResponse)
        ELSE IF ~method.ok THEN Err(method.err, NoResponse)
        ELSE IF ~span.ok THEN Err(span.err, NoResponse)
        ELSE IF exceeds_limit(span.val.day_count) THEN Err(DayCountError, NoResponse)
        ELSE LET calculator == PrayerCalculator(coordinates, method.val.settings, adjustments)
                 days == [i \in 1..span.val.day_count |->
                             calculate_prayer_times(calculator,
                                                    plus_days(span.val.start, i - 1))]
                 failing == {i \in 1..span.val.day_count : early_return(days[i])}
             IN  IF failing # {}
                 THEN Err(days[CHOOSE i \in failing : \A j \in failing : i <= j].err,
                          NoResponse)
                 ELSE LET list == [i \in 1..span.val.day_count |-> days[i].val]
                          next_prayer == calculate_next_prayer(timespan, span.val.start, list)
                          meta == MetaData(method.val.method, method.val.settings,
                                           req.timezone, Some(adjustments), coordinates,
                                           utc_now)
                          kept == IF is_single_day(timespan)
                                  THEN SubSeq(list, 1, Len(list) - 1) ELSE list
                      IN  Ok(PrayerTimesResponse(calculate_qibla_direction(calculator),
                                                 next_prayer, kept, meta))

\* Time passes; Redis drops the entries whose TTL has run out.
Tick ==
    /\ ticks < MaxTicks
    /\ ticks' = ticks + 1
    /\ now' = now + ClockStep
    /\ cache' = {e \in cache : now + ClockStep < e.expires}
    /\ UNCHANGED <<served, pc, request, frame, prayers, outcome>>
    /\ UNCHANGED <<calc_vars, call, limiter_vars, zakat_vars>>

(***************************************************************************)
(* Requests                                                                *)
(***************************************************************************)
\* Makkah by the Mwl method at +03:00, no timespan (DaysFromToday(1)).
BaseRequest ==
    PrayerTimesRequest(Deg(21, 4), Deg(39, 8), Absent(0), "Mwl", Absent(NoCustom), None,
                       Offset(1, 3, 0), Absent(DefaultTimespan), Absent(NoAdjustments),
                       None, None)

WithSpan(r, timespan) == [r EXCEPT !.timespan = Some(timespan)]

\* The requests of the concurrent specification.
Requests ==
    { BaseRequest,
      WithSpan(BaseRequest, DaysFromToday(3)),
      WithSpan(BaseRequest, DaysFromToday(0)),
      WithSpan(BaseRequest, DaysFromToday(367)),
      WithSpan(BaseRequest, DaysFromDate(DateStr(31, 10, 2026), 2)),
      WithSpan(BaseRequest, DaysFromDate(DateStr(31, 12, 2076), 2)),
      WithSpan(BaseRequest, GregorianYear(-1)),
      [BaseRequest EXCEPT !.latitude = Deg(91, 0)],
      [BaseRequest EXCEPT !.method = None] }

\* The requests of the long-span specification.
SpanRequests ==
    { BaseRequest,
      WithSpan(BaseRequest, DaysFromToday(0)),
      WithSpan(BaseRequest, DaysFromToday(366)),
      WithSpan(BaseRequest, DaysFromToday(367)),
      WithSpan(BaseRequest, DaysFromDate(DateStr(1, 1, 2027), 366)),
      WithSpan(BaseRequest, DaysFromDate(DateStr(1, 1, 2027), 367)),
      WithSpan(BaseRequest, DaysFromDate(DateStr(30, 2, 2027), 5)),
      WithSpan(BaseRequest, Month("FEB", 2024)),
      WithSpan(BaseRequest, Month("february", 2027)),
      WithSpan(BaseRequest, Month("April", 2026)),
      WithSpan(BaseRequest, Month("dec", 2026)),
      WithSpan(BaseRequest, Month("smarch", 2026)),
      WithSpan(BaseRequest, GregorianYear(2028)),
      WithSpan(BaseRequest, GregorianYear(2027)),
      WithSpan(BaseRequest, GregorianYear(2076)),
      WithSpan(BaseRequest, HijriYear(1448)),
      WithSpan(BaseRequest, HijriYear(1501)) }

SpanTask == "t1"

(***************************************************************************)
(* Specifications of the handler                                           *)
(***************************************************************************)
Init == HandlerInit /\ CalcIdle /\ CallIdle /\ LimiterInit /\ ZakatInit

Next ==
    \/ \E t \in Tasks : \E r \in Requests : Receive(t, r)
    \/ \E t \in Tasks : CacheGet(t)
    \/ \E t \in Tasks : Prepare(t)
    \/ \E t \in Tasks : DayStep(t)
    \/ \E t \in Tasks : Finish(t)
    \/ \E t \in Tasks : CacheSet(t)
    \/ Tick

Spec == Init /\ [][Next]_vars

\* One task serving one request of a long span.
NextSpan ==
    \/ \E r \in SpanRequests : Receive(SpanTask, r)
    \/ CacheGet(SpanTask)
    \/ Prepare(SpanTask)
    \/ DayStep(SpanTask)
    \/ Finish(SpanTask)
    \/ CacheSet(SpanTask)

InitSpan ==
    /\ HandlerInit
    /\ CalcIdle
    /\ CallIdle
    /\ LimiterInit
    /\ ZakatInit

SpecSpan == InitSpan /\ [][NextSpan]_vars

(***************************************************************************)
(* One task serving single-day requests that differ in their method        *)
(* selectors, their overrides and their coordinates                        *)
(***************************************************************************)
\* "custom": {} and a custom method that sets every field.
EmptyCustom == NoCustom

FullCustom ==
    CustomMethod(Some(Deg(15, 0)), Some(Text(90, TRUE, TRUE)), Some(Text(4, FALSE, TRUE)),
                 Some(Text(15, TRUE, TRUE)), Some(5), "Jafari", "Ahmer", "Hanafi",
                 "OneSeventh")

\* A custom method whose isha text is not a number.
BadCustom == [EmptyCustom EXCEPT !.isha = Some(Text(0, FALSE, FALSE))]

SelectorRequests ==
    {[BaseRequest EXCEPT !.custom = custom, !.method = method, !.country = country,
                         !.high_lat = high_lat, !.school = school] :
        custom \in {Absent(NoCustom), Some(EmptyCustom), Some(FullCustom), Some(BadCustom)},
        method \in {None, "Tehran"},
        country \in {None, "SAUDI ARABIA", "Atlantis"},
        high_lat \in {None, "AngleBased"},
        school \in {None, "Standard", "Hanafi"}}

\* One unit (1/10000 degree) and one metre beyond each limit of validation.rs.
LatitudeMenu == {Deg(-90, 0) - 1, Deg(-90, 0), Deg(90, 0), Deg(90, 0) + 1}

LongitudeMenu == {Deg(-180, 0) - 1, Deg(-180, 0), Deg(180, 0), Deg(180, 0) + 1}

ElevationMenu == {-501, -500, 10000, 10001}

CoordinateRequests ==
    {[BaseRequest EXCEPT !.latitude = lat] : lat \in LatitudeMenu} \cup
    {[BaseRequest EXCEPT !.longitude = lng] : lng \in LongitudeMenu} \cup
    {[BaseRequest EXCEPT !.elevation = Some(elevation)] : elevation \in ElevationMenu}

InputRequests == SelectorRequests \cup CoordinateRequests

NextInputs ==
    \/ \E r \in InputRequests : Receive(SpanTask, r)
    \/ CacheGet(SpanTask)
    \/ Prepare(SpanTask)
    \/ DayStep(SpanTask)
    \/ Finish(SpanTask)
    \/ CacheSet(SpanTask)

SpecInputs == Init /\ [][NextInputs]_vars

(***************************************************************************)
(* Single calls of the parsing functions                                   *)
(***************************************************************************)
MaxTextLen == 5

TextAlphabet == {"1", "8", " ", "m", "i", "n", "a", "-"}

\* Every string of at most n characters of the alphabet.
RECURSIVE TextsUpTo(_)
TextsUpTo(n) ==
    IF n = 0 THEN {<<>>}
    ELSE LET shorter == TextsUpTo(n - 1)
         IN  shorter \cup {Append(s, c) : s \in shorter, c \in TextAlphabet}

\* "NaN", "8 MIN" and "+18" besides.
TwilightTexts ==
    TextsUpTo(MaxTextLen) \cup
        {<<"N", "a", "N">>, <<"8", " ", "M", "I", "N">>, <<"+", "1", "8">>}

ParseMinuteOrAngle(value) ==
    /\ call.fn = "none"
    /\ call' = [fn |-> "parse_minute_or_angle", arg |-> value,
                result |-> parse_minute_or_angle_str(value)]
    /\ UNCHANGED <<handler_vars, calc_vars, limiter_vars, zakat_vars>>

DetermineMethod(r) ==
    /\ call.fn = "none"
    /\ call' = [fn |-> "determine_method", arg |-> r, result |-> determine_method(r)]
    /\ UNCHANGED <<handler_vars, calc_vars, limiter_vars, zakat_vars>>

\* Each run makes one call.
NextText ==
    \/ call.fn = "none" /\ \E value \in TwilightTexts : ParseMinuteOrAngle(value)
    \/ call.fn = "none" /\ \E r \in SelectorRequests : DetermineMethod(r)

SpecText == Init /\ [][NextText]_vars

(***************************************************************************)
(* parse_timezone and validate_timezone, each called once on a string      *)
(***************************************************************************)
\* The hours and the rest of an offset string, as written by a client.
HourTexts ==
    {<<"0", "0">>, <<"0", "5">>, <<"1", "2">>, <<"1", "3">>, <<"1", "4">>, <<"1", "5">>,
     <<"2", "5">>, <<"5">>, <<"-", "5">>, <<"-", "1", "2">>, <<"-", "1", "3">>, <<"+", "5">>,
     <<" ", "5">>, <<>>}

MinuteTexts ==
    {<<>>, <<":">>, <<":", "0", "0">>, <<":", "3", "0">>, <<":", "5", "9">>, <<":", "6", "0">>,
     <<":", "-", "1">>, <<":", "0", "0", ":", "9", "9">>}

Paddings == {<<>>, <<" ">>}

\* Offsets with either sign, with and without blanks around them, and a
\* few strings that are no offsets.
TimezoneTexts ==
    {before \o sign \o hours \o minutes \o after :
        before \in Paddings, sign \in {<<"+">>, <<"-">>}, hours \in HourTexts,
        minutes \in MinuteTexts, after \in Paddings}
    \cup {<<>>, <<"5", ":", "0", "0">>, <<"U", "T", "C">>, <<"U", "T", "C", " ">>,
          <<"M", "a", "r", "s">>}

ParseTimezone(timezone) ==
    /\ call.fn = "none"
    /\ call' = [fn |-> "parse_timezone", arg |-> timezone,
                result |-> parse_timezone_str(timezone)]
    /\ UNCHANGED <<handler_vars, calc_vars, limiter_vars, zakat_vars>>

ValidateTimezone(timezone) ==
    /\ call.fn = "none"
    /\ call' = [fn |-> "validate_timezone", arg |-> timezone,
                result |-> validate_timezone_str(timezone)]
    /\ UNCHANGED <<handler_vars, calc_vars, limiter_vars, zakat_vars>>

NextZone ==
    \/ call.fn = "none" /\ \E timezone \in TimezoneTexts : ParseTimezone(timezone)
    \/ call.fn = "none" /\ \E timezone \in TimezoneTexts : ValidateTimezone(timezone)

SpecZone == Init /\ [][NextZone]_vars

(***************************************************************************)
(* The two qibla bearings, each called once on valid coordinates           *)
(***************************************************************************)
\* Latitudes of QiblaCalculator, in CoordUnit: the poles, the equator, the
\* Kaaba's own and two others.
QiblaLatitudes ==
    {-90 * CoordUnit, -33 * CoordUnit, 0, KAABA_LATITUDE, 45 * CoordUnit, 90 * CoordUnit}

\* Longitudes of QiblaCalculator: the Kaaba's meridian and its neighbours to
\* the seventh decimal, and five far ones.
QiblaLongitudes ==
    {KAABA_LONGITUDE + d : d \in -3..3} \cup
        {-174 * CoordUnit, -74 * CoordUnit, 0, 100 * CoordUnit, 180 * CoordUnit}

\* Coordinates of PrayerCalculator, in AngUnit.
DirectionLatitudes == {Deg(-90, 0), Deg(-33, 0), 0, Deg(21, 4), Deg(45, 0), Deg(90, 0)}

DirectionLongitudes ==
    {KaabaLng + d : d \in -2..2} \cup {Deg(-180, 0), Deg(-74, 0), 0, Deg(180, 0)}

CalculateBearingToKaaba(latitude, longitude) ==
    /\ call.fn = "none"
    /\ call' = [fn |-> "calculate_bearing_to_kaaba",
                arg |-> QiblaCalculator(latitude, longitude),
                result |-> calculate_bearing_to_kaaba(QiblaCalculator(latitude, longitude))]
    /\ UNCHANGED <<handler_vars, calc_vars, limiter_vars, zakat_vars>>

CalculateQiblaDirection(latitude, longitude) ==
    /\ call.fn = "none"
    /\ \E calc \in {[coordinates |-> [latitude |-> latitude, longitude |-> longitude]]} :
           call' = [fn |-> "calculate_qibla_direction", arg |-> calc.coordinates,
                    result |-> calculate_qibla_direction(calc)]
    /\ UNCHANGED <<handler_vars, calc_vars, limiter_vars, zakat_vars>>

NextQibla ==
    \/ call.fn = "none" /\ \E latitude \in QiblaLatitudes, longitude \in QiblaLongitudes :
           CalculateBearingToKaaba(latitude, longitude)
    \/ call.fn = "none" /\ \E latitude \in DirectionLatitudes, longitude \in DirectionLongitudes :
           CalculateQiblaDirection(latitude, longitude)

SpecQibla == Init /\ [][NextQibla]_vars

(***************************************************************************)
(* simple_rate_limit.rs: check_rate_limit as a state machine               *)
(*                                                                         *)
(* Each task runs one call at a time; the two Redis commands of            *)
(* Cache::increment and the taking of the write lock are its await points. *)
(* Redis drops a key lazily, when a command finds it past its expiry.      *)
(***************************************************************************)
\* RateLimitConfig.requests_per_minute
requests_per_minute == 1

\* Duration::from_secs(60)
Window == 60

MaxCalls == 3
LimiterStep == 30
MaxClock == 60

\* The key as a Redis command finds it: gone once past its expiry.
Live(counter) ==
    IF counter.expires # 0 /\ clock >= counter.expires THEN NoCount ELSE counter

Idle == [at |-> "idle", id |-> "unknown", count |-> 0, since |-> 0]

\* The bool check_rate_limit returns to a call counted at `since`, added to
\* the identifier's tally. The tally keeps the window of 60 s that began with
\* the first call counted: a call counted after its end opens the next one.
Answered(id, since, allowed) ==
    [tally EXCEPT ![id] =
        LET past == @.open /\ since >= @.window + Window
            fresh == ~@.open \/ past
        IN  [begun |-> @.begun,
             open |-> TRUE,
             allowed |-> IF allowed THEN @.allowed + 1 ELSE @.allowed,
             denied |-> IF allowed THEN @.denied ELSE @.denied + 1,
             window |-> IF fresh THEN since ELSE @.window,
             limited |-> IF fresh THEN ~allowed ELSE @.limited \/ ~allowed,
             late |-> @.late \/ (past /\ @.limited /\ ~allowed)]]

\* rate_limit_middleware calls check_rate_limit(&client_ip).
BeginCheck(t, id) ==
    /\ limiter_pc[t].at = "idle"
    /\ tally[id].begun < MaxCalls
    /\ limiter_pc' = [limiter_pc EXCEPT ![t] = [at |-> "incr", id |-> id, count |-> 0,
                                                since |-> 0]]
    /\ tally' = [tally EXCEPT ![id].begun = @ + 1]
    /\ UNCHANGED <<clock, redis_counter, local_cache>>
    /\ UNCHANGED <<handler_vars, calc_vars, call, zakat_vars>>

\* conn.incr(key, 1).await?: the new count, or an error of the connection,
\* after which check_rate_limit falls back to the local map.
RedisIncr(t) ==
    /\ limiter_pc[t].at = "incr"
    /\ \E redis_ok \in BOOLEAN :
          IF redis_ok
          THEN \E result \in {Live(redis_counter[limiter_pc[t].id]).count + 1} :
                  /\ redis_counter' =
                         [redis_counter EXCEPT ![limiter_pc[t].id] =
                             [count |-> result, expires |-> Live(@).expires]]
                  /\ limiter_pc' = [limiter_pc EXCEPT ![t].at = "expire", ![t].count = result,
                                                          ![t].since = clock]
          ELSE /\ limiter_pc' = [limiter_pc EXCEPT ![t].at = "local"]
               /\ UNCHANGED redis_counter
    /\ UNCHANGED <<clock, local_cache, tally>>
    /\ UNCHANGED <<handler_vars, calc_vars, call, zakat_vars>>

\* conn.expire(key, 60).await?, then the comparison of check_redis_rate_limit;
\* an error here too sends the call to the local map.
RedisExpire(t) ==
    /\ limiter_pc[t].at = "expire"
    /\ \E redis_ok \in BOOLEAN :
          IF redis_ok
          THEN /\ redis_counter' =
                      [redis_counter EXCEPT ![limiter_pc[t].id] =
                          IF Live(@).count = 0 THEN NoCount
                          ELSE [count |-> @.count, expires |-> clock + Window]]
               /\ tally' = Answered(limiter_pc[t].id, limiter_pc[t].since,
                                    ~(limiter_pc[t].count > requests_per_minute))
               /\ limiter_pc' = [limiter_pc EXCEPT ![t] = Idle]
          ELSE /\ limiter_pc' = [limiter_pc EXCEPT ![t].at = "local"]
               /\ UNCHANGED <<redis_counter, tally>>
    /\ UNCHANGED <<clock, local_cache>>
    /\ UNCHANGED <<handler_vars, calc_vars, call, zakat_vars>>

\* check_local_rate_limit, all of it under the write lock.
CheckLocal(t) ==
    /\ limiter_pc[t].at = "local"
    /\ \E id \in {limiter_pc[t].id} :
       \E retained \in {[i \in Identifiers |->
                            IF local_cache[i].present /\ clock - local_cache[i].timestamp < Window
                            THEN local_cache[i] ELSE NoEntry]} :
       \E inserted \in {IF retained[id].present THEN retained[id]
                        ELSE [count |-> 0, timestamp |-> clock, present |-> TRUE]} :
       \E entry \in {IF clock - inserted.timestamp >= Window
                     THEN [inserted EXCEPT !.count = 1, !.timestamp = clock]
                     ELSE [inserted EXCEPT !.count = @ + 1]} :
           /\ local_cache' = [retained EXCEPT ![id] = entry]
           /\ tally' = Answered(id, clock, ~(entry.count > requests_per_minute))
    /\ limiter_pc' = [limiter_pc EXCEPT ![t] = Idle]
    /\ UNCHANGED <<clock, redis_counter>>
    /\ UNCHANGED <<handler_vars, calc_vars, call, zakat_vars>>

\* Instant::now() and the clock of Redis move on.
LimiterTick ==
    /\ clock < MaxClock
    /\ clock' = clock + LimiterStep
    /\ UNCHANGED <<redis_counter, local_cache, limiter_pc, tally>>
    /\ UNCHANGED <<handler_vars, calc_vars, call, zakat_vars>>

NextRate ==
    \/ \E t \in Tasks, id \in Identifiers : BeginCheck(t, id)
    \/ \E t \in Tasks : RedisIncr(t)
    \/ \E t \in Tasks : RedisExpire(t)
    \/ \E t \in Tasks : CheckLocal(t)
    \/ LimiterTick

SpecRate == Init /\ [][NextRate]_vars

(***************************************************************************)
(* ZakatService: the user's history and summary behind the Redis cache     *)
(*                                                                         *)
(* One user's rows of zakat_calculations and the three keys of that user.  *)
(* Every await of the four functions is a step boundary; a Redis command   *)
(* and a query may each return an error.  The entries are set for 1800 s   *)
(* and 3600 s and stay alive for the calls modelled.                       *)
(***************************************************************************)
MaxOps == 4
MaxWrites == 2

ZakatWrites == {"save_calculation", "delete_user_data"}

ZakatReads == {"get_calculation_history", "get_user_summary"}

\* format!("zakat_history:{}", user_id), format!("zakat_summary:{}", user_id)
cache_key(op) ==
    IF op = "get_calculation_history" THEN "zakat_history" ELSE "zakat_summary"

\* The response built from one state of the table: the rows, and the
\* aggregates over the same rows.
ViewOf(rows) == [some |-> TRUE, calculations |-> rows, stats |-> Cardinality(rows)]

\* The number of changes of the table so far.
Version == Len(zakat_log.tables) - 1

\* A view that is the table as it was at no moment since the last write
\* that had completed when the read began.
Predates(view, settled) ==
    ~\E v \in settled..Version : ViewOf(zakat_log.tables[v + 1]) = view

\* Err(e) or Ok(..) leaves the function.
ZakatReturn(t, ok) == [zakat_pc[t] EXCEPT !.at = "returned", !.ok = ok]

\* A handler calls one of the four functions for the user.
BeginZakat(t, op) ==
    /\ zakat_pc[t].at \in {"idle", "returned"}
    /\ zakat_log.begun < MaxOps
    /\ op \in ZakatWrites => zakat_log.writes < MaxWrites
    /\ zakat_pc' = [zakat_pc EXCEPT ![t] =
                       [ZakatIdle EXCEPT !.op = op,
                                         !.at = CASE op = "save_calculation" -> "insert"
                                                  [] op = "delete_user_data" -> "delete"
                                                  [] OTHER -> "cache_get",
                                         !.settled = zakat_log.settled]]
    /\ zakat_log' = [zakat_log EXCEPT !.begun = @ + 1,
                                      !.writes = IF op \in ZakatWrites THEN @ + 1 ELSE @]
    /\ UNCHANGED <<zakat_calculations, zakat_cache>>
    /\ UNCHANGED <<handler_vars, calc_vars, call, limiter_vars>>

\* self.repository.save_calculation(calculation).await?: INSERT of a row
\* with a new Uuid.
RepositorySave(t) ==
    /\ zakat_pc[t].at = "insert"
    /\ \E db_ok \in BOOLEAN :
          IF db_ok
          THEN \E id \in {Version + 1} :
                  /\ zakat_calculations' = zakat_calculations \cup {id}
                  /\ zakat_log' = [zakat_log EXCEPT
                                      !.tables = Append(@, zakat_calculations \cup {id})]
                  /\ zakat_pc' = [zakat_pc EXCEPT ![t].at = "del_history",
                                                  ![t].wrote = Version + 1]
          ELSE /\ zakat_pc' = [zakat_pc EXCEPT ![t] = ZakatReturn(t, FALSE)]
               /\ UNCHANGED <<zakat_calculations, zakat_log>>
    /\ UNCHANGED zakat_cache
    /\ UNCHANGED <<handler_vars, calc_vars, call, limiter_vars>>

\* self.repository.delete_user_calculations(user_id).await?: DELETE of the
\* user's rows.
RepositoryDelete(t) ==
    /\ zakat_pc[t].at = "delete"
    /\ \E db_ok \in BOOLEAN :
          IF db_ok
          THEN \E tables \in {IF zakat_calculations = {} THEN zakat_log.tables
                               ELSE Append(zakat_log.tables, {})} :
                  /\ zakat_calculations' = {}
                  /\ zakat_log' = [zakat_log EXCEPT !.tables = tables]
                  /\ zakat_pc' = [zakat_pc EXCEPT ![t].at = "del_history",
                                                  ![t].wrote = Len(tables) - 1]
          ELSE /\ zakat_pc' = [zakat_pc EXCEPT ![t] = ZakatReturn(t, FALSE)]
               /\ UNCHANGED <<zakat_calculations, zakat_log>>
    /\ UNCHANGED zakat_cache
    /\ UNCHANGED <<handler_vars, calc_vars, call, limiter_vars>>

\* self.cache.delete("zakat_history:<user_id>"), an error only logged.
CacheDeleteHistory(t) ==
    /\ zakat_pc[t].at = "del_history"
    /\ \E redis_ok \in BOOLEAN :
          zakat_cache' = IF redis_ok THEN [zakat_cache EXCEPT !["zakat_history"] = NoView]
                         ELSE zakat_cache
    /\ zakat_pc' = [zakat_pc EXCEPT ![t].at = "del_stats"]
    /\ UNCHANGED <<zakat_calculations, zakat_log>>
    /\ UNCHANGED <<handler_vars, calc_vars, call, limiter_vars>>

\* self.cache.delete("zakat_stats:<user_id>"), an error only logged, and
\* the Ok(..) of save_calculation or delete_user_data.
CacheDeleteStats(t) ==
    /\ zakat_pc[t].at = "del_stats"
    /\ \E redis_ok \in BOOLEAN :
          zakat_cache' = IF redis_ok THEN [zakat_cache EXCEPT !["zakat_stats"] = NoView]
                         ELSE zakat_cache
    /\ zakat_pc' = [zakat_pc EXCEPT ![t] = ZakatReturn(t, TRUE)]
    /\ zakat_log' = [zakat_log EXCEPT
                        !.settled = IF zakat_pc[t].wrote > @ THEN zakat_pc[t].wrote ELSE @]
    /\ UNCHANGED zakat_calculations
    /\ UNCHANGED <<handler_vars, calc_vars, call, limiter_vars>>

\* if let Ok(Some(cached)) = self.cache.get(&cache_key).await { return Ok(cached) }
ZakatCacheGet(t) ==
    /\ zakat_pc[t].at = "cache_get"
    /\ \E redis_ok \in BOOLEAN :
       \E cached \in {zakat_cache[cache_key(zakat_pc[t].op)]} :
          zakat_pc' = [zakat_pc EXCEPT ![t] =
                          IF redis_ok /\ cached.some
                          THEN [@ EXCEPT !.at = "returned", !.view = cached, !.hit = TRUE,
                                         !.stale = Predates(cached, zakat_pc[t].settled)]
                          ELSE [@ EXCEPT !.at = "calculations"]]
    /\ UNCHANGED <<zakat_calculations, zakat_cache, zakat_log>>
    /\ UNCHANGED <<handler_vars, calc_vars, call, limiter_vars>>

\* self.repository.get_user_calculations(user_id).await?
GetUserCalculations(t) ==
    /\ zakat_pc[t].at = "calculations"
    /\ \E db_ok \in BOOLEAN :
          zakat_pc' = [zakat_pc EXCEPT ![t] =
                          IF db_ok
                          THEN [@ EXCEPT !.at = "stats",
                                         !.view.calculations = zakat_calculations]
                          ELSE ZakatReturn(t, FALSE)]
    /\ UNCHANGED <<zakat_calculations, zakat_cache, zakat_log>>
    /\ UNCHANGED <<handler_vars, calc_vars, call, limiter_vars>>

\* self.repository.get_calculation_stats(user_id).await?, and the response
\* built from both results.
GetCalculationStats(t) ==
    /\ zakat_pc[t].at = "stats"
    /\ \E db_ok \in BOOLEAN :
          zakat_pc' = [zakat_pc EXCEPT ![t] =
                          IF db_ok
                          THEN [@ EXCEPT !.at = "cache_set",
                                         !.view.some = TRUE,
                                         !.view.stats = Cardinality(zakat_calculations)]
                          ELSE ZakatReturn(t, FALSE)]
    /\ UNCHANGED <<zakat_calculations, zakat_cache, zakat_log>>
    /\ UNCHANGED <<handler_vars, calc_vars, call, limiter_vars>>

\* self.cache.set(&cache_key, &response, Some(ttl)), an error only logged,
\* and Ok(response).
ZakatCacheSet(t) ==
    /\ zakat_pc[t].at = "cache_set"
    /\ \E redis_ok \in BOOLEAN :
          zakat_cache' = IF redis_ok
                         THEN [zakat_cache EXCEPT ![cache_key(zakat_pc[t].op)] = zakat_pc[t].view]
                         ELSE zakat_cache
    /\ zakat_pc' = [zakat_pc EXCEPT ![t] = ZakatReturn(t, TRUE)]
    /\ UNCHANGED <<zakat_calculations, zakat_log>>
    /\ UNCHANGED <<handler_vars, calc_vars, call, limiter_vars>>

NextZakat ==
    \/ \E t \in Tasks, op \in ZakatWrites \cup ZakatReads : BeginZakat(t, op)
    \/ \E t \in Tasks : RepositorySave(t)
    \/ \E t \in Tasks : RepositoryDelete(t)
    \/ \E t \in Tasks : CacheDeleteHistory(t)
    \/ \E t \in Tasks : CacheDeleteStats(t)
    \/ \E t \in Tasks : ZakatCacheGet(t)
    \/ \E t \in Tasks : GetUserCalculations(t)
    \/ \E t \in Tasks : GetCalculationStats(t)
    \/ \E t \in Tasks : ZakatCacheSet(t)

SpecZakat == Init /\ [][NextZakat]_vars

(***************************************************************************)
(* compute_times stage by stage, and single calls of sun_angle_time        *)
(***************************************************************************)
\* A custom method's settings with the given twilight values.
CustomSettings(fajr, isha, imsak) ==
    MethodSettings(fajr, isha, "Standard", Minute(0), imsak, 0, None, "Hanafi", NoRule)

BaseSettings ==
    { to_method_settings("Mwl"),
      to_method_settings("Makkah"),
      to_method_settings("Tehran"),
      CustomSettings(Deg(18, 0), Angle(NaN), Minute(10)),
      CustomSettings(Deg(0, 0), Angle(Deg(18, 0)), Angle(Deg(20, 0))),
      CustomSettings(Deg(-5, 0), Angle(Deg(-5, 0)), Minute(10)),
      CustomSettings(Deg(15, 0), Minute(-30), Minute(10)),
      [to_method_settings("Mwl") EXCEPT !.dhuhr = 5] }

SettingsSet ==
    {[ms EXCEPT !.high_lat = rule] : ms \in BaseSettings,
                                     rule \in HighLatitudeRules \cup {NoRule}}

Latitudes == {Deg(0, 0), Deg(21, 4), Deg(51, 5), Deg(70, 0), Deg(90, 0), Deg(-90, 0)}

\* 179.425 degrees east: the longitude whose hour (lng / 15) lies one unit
\* above the Dhuhr hour of 21.4 degrees north on 21/12/2026.
JustPastDhuhr == 1794250

Longitudes == {Deg(-74, 0), Deg(39, 8), Deg(180, 0), JustPastDhuhr}

Elevations == {0, 2500}

\* The solstices and equinoxes after the clock's start.
Dates ==
    {days_from_civil(2026, 12, 21), days_from_civil(2027, 3, 20),
     days_from_civil(2027, 6, 21), days_from_civil(2027, 9, 23)}

SolveAngles == {Deg(0, 8), Deg(18, 0), Deg(-5, 0), NaN}

InitCalc ==
    /\ HandlerInit
    /\ input \in {[calc |-> PrayerCalculator(Coordinates(lat, lng, elevation), ms,
                                             NoAdjustments),
                   date |-> local_noon(day, 0)] :
                     lat \in Latitudes, lng \in Longitudes, elevation \in Elevations,
                     ms \in SettingsSet, day \in Dates}
    /\ stages = <<>>
    /\ solved = NoCall
    /\ CallIdle
    /\ LimiterInit
    /\ ZakatInit

\* compute_times up to Imsak; an Err of sun_angle_time ends compute_times.
ComputeRaw ==
    /\ stages = <<>>
    /\ ~solved.called
    /\ \E raw \in {raw_times(input.calc, sun_position(julian_date(input.date)))} :
          IF raw.ok
          THEN stages' = <<raw.val>> /\ UNCHANGED solved
          ELSE /\ solved' = [called |-> TRUE, angle |-> 0, direction |-> 1,
                            result |-> Err(raw.err, 0)]
               /\ UNCHANGED stages
    /\ UNCHANGED <<input>>
    /\ UNCHANGED <<handler_vars, call, limiter_vars, zakat_vars>>

AdjustHighLatitudes ==
    /\ Len(stages) = 1
    /\ stages' = Append(stages, apply_high_lat(input.calc.method_settings, stages[1]))
    /\ UNCHANGED <<input, solved>>
    /\ UNCHANGED <<handler_vars, call, limiter_vars, zakat_vars>>

NightPhases ==
    /\ Len(stages) = 2
    /\ stages' = Append(stages, night_phases(input.calc.method_settings, stages[2]))
    /\ UNCHANGED <<input, solved>>
    /\ UNCHANGED <<handler_vars, call, limiter_vars, zakat_vars>>

LongitudeAdjust ==
    /\ Len(stages) = 3
    /\ stages' = Append(stages, longitude_adjust(input.calc, stages[3]))
    /\ UNCHANGED <<input, solved>>
    /\ UNCHANGED <<handler_vars, call, limiter_vars, zakat_vars>>

\* One call of sun_angle_time at the input's place and date.
SolveAngle(angle, direction) ==
    /\ stages = <<>>
    /\ ~solved.called
    /\ \E sp \in {sun_position(julian_date(input.date))} :
          solved' = [called |-> TRUE, angle |-> angle, direction |-> direction,
                     result |-> sun_angle_time(input.calc.coordinates.latitude, angle,
                                               sp.eqt, sp.decl, direction)]
    /\ UNCHANGED <<input, stages>>
    /\ UNCHANGED <<handler_vars, call, limiter_vars, zakat_vars>>

NextCalc ==
    \/ ComputeRaw
    \/ AdjustHighLatitudes
    \/ NightPhases
    \/ LongitudeAdjust
    \/ \E angle \in SolveAngles : \E direction \in {-1, 1} : SolveAngle(angle, direction)

SpecCalc == InitCalc /\ [][NextCalc]_vars

(***************************************************************************)
(* format_time and calculate_prayer_times as single calls                  *)
(***************************************************************************)
\* i8
I8Min == -128
I8Max == 127

\* Hours handed to format_time, in seconds: the start of the day, half a
\* minute and a second less, noon, the last minute and a half, and NaN.
FormatHours ==
    {0, 29, 30, 12 * SecPerHour, HoursPerDay * SecPerHour - 31,
     HoursPerDay * SecPerHour - 30, HoursPerDay * SecPerHour - 1, NaN}

\* The ends of a year and of two Februaries.
FormatDays ==
    {days_from_civil(2026, 12, 31), days_from_civil(2027, 1, 1),
     days_from_civil(2027, 2, 28), days_from_civil(2028, 2, 29)}

\* FixedOffset, minutes east of UTC.
FormatOffsets == {-300, 0, 330}

\* Minutes of the local day at which a request arrives: its first minute,
\* noon and its last minute.
FormatMinutes == {0, 12 * MinPerHour, MinPerDay - 1}

\* Utc::now().with_timezone(&timezone) at a minute of a local day.
local_time(day, minute, off) == DateTime(day * MinPerDay + minute - off, off)

FieldAdjustments == {I8Min, -1, 0, 1, I8Max}

\* Adjustments with one field set.
OneAdjustment(f, a) == [NoAdjustments EXCEPT ![f] = a]

\* Adjustments with every field set.
AllAdjusted == [f \in FieldSet |-> IF f \in {"imsak", "isha", "midnight"} THEN I8Max ELSE I8Min]

FormatCalculators ==
    {PrayerCalculator(Coordinates(Deg(21, 4), lng, 0), ms, adjustments) :
        lng \in {Deg(-74, 0), Deg(39, 8)},
        ms \in {to_method_settings("Mwl"),
                CustomSettings(Deg(18, 0), Angle(NaN), Minute(10))},
        adjustments \in {OneAdjustment(f, a) : f \in FieldSet, a \in {I8Min, I8Max}}
                            \cup {NoAdjustments, AllAdjusted}}

FormatTime(time, date, adjustment) ==
    /\ call.fn = "none"
    /\ call' = [fn |-> "format_time",
                arg |-> [time |-> time, date |-> date, adjustment |-> adjustment],
                result |-> Ok(format_time(time, date, adjustment))]
    /\ UNCHANGED <<handler_vars, calc_vars, limiter_vars, zakat_vars>>

CalculatePrayerTimes(calc, date) ==
    /\ call.fn = "none"
    /\ call' = [fn |-> "calculate_prayer_times", arg |-> [calc |-> calc, date |-> date],
                result |-> calculate_prayer_times(calc, date)]
    /\ UNCHANGED <<handler_vars, calc_vars, limiter_vars, zakat_vars>>

NextFormat ==
    \/ call.fn = "none" /\ \E time \in FormatHours, day \in FormatDays, off \in FormatOffsets,
                                adjustment \in FieldAdjustments :
           FormatTime(time, local_noon(day, off), adjustment)
    \/ call.fn = "none" /\ \E calc \in FormatCalculators, day \in FormatDays,
                                minute \in FormatMinutes, off \in FormatOffsets :
           CalculatePrayerTimes(calc, local_time(day, minute, off))

SpecFormat == Init /\ [][NextFormat]_vars

(***************************************************************************)
(* Properties of compute_times (SpecCalc)                                  *)
(***************************************************************************)
DayLength == HoursPerDay * SecPerHour

InDay(x) == 0 <= x /\ x < DayLength

\* C8: once compute_times has applied the longitude correction, each of its
\* eleven hour values is NaN or lies in [0, 24).
C8_HoursInDay ==
    Len(stages) = 4 => \A f \in FieldSet : IsNaN(stages[4][f]) \/ InDay(stages[4][f])

\* What fails C8: a value a hair below zero before fix_hour, which fix_hour
\* returns as 24 exactly.
C8_FullDay ==
    /\ Len(stages) = 4
    /\ \E f \in FieldSet :
          /\ FLt(FSub(stages[3][f], DegToHours(input.calc.coordinates.longitude)), 0)
          /\ stages[4][f] = DayLength

RuleApplied == Len(stages) >= 2 /\ input.calc.method_settings.high_lat # NoRule

\* The distance of Fajr before sunrise and of Isha after sunset.
FajrGap(times) == fix_hour(FSub(times.sunrise, times.fajr))

IshaGap(times) == fix_hour(FSub(times.isha, times.sunset))

NotNegative(angle) == ~FLt(angle, 0)

C10_ErrorExactlyAtPoles ==
    solved.called =>
        LET lat  == input.calc.coordinates.latitude
            noon == mid_day(sun_position(julian_date(input.date)).eqt)
        IN  /\ ~solved.result.ok <=> Abs(lat) = Deg(90, 0)
            /\ solved.result.ok =>
                   /\ ~IsNaN(solved.result.val)
                   /\ Abs(solved.result.val - noon) <= Noon * SecPerHour

\* (a - b) mod 24 hours: how far a lies after b going forward.
Forward(a, b) == (a - b) % DayLength

\* C23: with night = fix_hour(sunrise - sunset), first_third, Standard
\* midnight and last_third are sunset + night/3, sunset + night/2 and
\* sunset + 2*night/3 (mod 24), so that going forward from sunset they come
\* in the order first_third <= midnight <= last_third <= sunrise; Jafari
\* midnight is sunset + fix_hour(fajr - sunset)/2 of the Fajr value after the
\* high-latitude adjustment.
C23_NightPhasesInOrder ==
    Len(stages) >= 3 =>
        \A ms \in {input.calc.method_settings} :
        \A night \in {fix_hour(FSub(stages[2].sunrise, stages[2].sunset))} :
            /\ stages[3].first_third = FAdd(stages[2].sunset, FScale(night, 1, 3))
            /\ stages[3].last_third = FAdd(stages[2].sunset, FScale(night, 2, 3))
            /\ ms.midnight = "Standard" =>
                   /\ stages[3].midnight = FAdd(stages[2].sunset, FScale(night, 1, 2))
                   /\ Forward(stages[3].first_third, stages[3].sunset)
                          <= Forward(stages[3].midnight, stages[3].sunset)
                   /\ Forward(stages[3].midnight, stages[3].sunset)
                          <= Forward(stages[3].last_third, stages[3].sunset)
                   /\ Forward(stages[3].last_third, stages[3].sunset)
                          <= Forward(stages[3].sunrise, stages[3].sunset)
            /\ ms.midnight = "Jafari" =>
                   stages[3].midnight =
                       FAdd(stages[2].sunset,
                            FScale(fix_hour(FSub(stages[2].fajr, stages[2].sunset)), 1, 2))
            /\ (Len(stages) >= 4 /\ ms.midnight = "Standard") =>
                   /\ Forward(stages[4].first_third, stages[4].sunset)
                          <= Forward(stages[4].midnight, stages[4].sunset)
                   /\ Forward(stages[4].midnight, stages[4].sunset)
                          <= Forward(stages[4].last_third, stages[4].sunset)
                   /\ Forward(stages[4].last_third, stages[4].sunset)
                          <= Forward(stages[4].sunrise, stages[4].sunset)

\* At 51.5 degrees north in June under OneSeventh, Fajr replaced by the
\* rule: the thirds and the Standard midnight run past 24 hours before the
\* longitude correction, and in the values returned they follow sunset in
\* strict order, before sunrise.
C23_Witness ==
    /\ Len(stages) = 4
    /\ input.calc.coordinates.latitude = Deg(51, 5)
    /\ input.calc.method_settings.midnight = "Standard"
    /\ input.calc.method_settings.high_lat = "OneSeventh"
    /\ stages[2].fajr # stages[1].fajr
    /\ stages[3].sunset < DayLength /\ stages[3].last_third >= DayLength
    /\ 0 < Forward(stages[4].first_third, stages[4].sunset)
    /\ Forward(stages[4].first_third, stages[4].sunset)
           < Forward(stages[4].midnight, stages[4].sunset)
    /\ Forward(stages[4].midnight, stages[4].sunset)
           < Forward(stages[4].last_third, stages[4].sunset)
    /\ Forward(stages[4].last_third, stages[4].sunset)
           < Forward(stages[4].sunrise, stages[4].sunset)

\* Under the Jafari convention with a rule that replaced Fajr, midnight is
\* half way from sunset to the replaced Fajr and not to the solved one.
C23_JafariAfterRule ==
    /\ Len(stages) >= 3
    /\ input.calc.method_settings.midnight = "Jafari"
    /\ ~IsNaN(stages[1].fajr) /\ stages[2].fajr # stages[1].fajr
    /\ stages[3].midnight =
           FAdd(stages[2].sunset,
                FScale(fix_hour(FSub(stages[2].fajr, stages[2].sunset)), 1, 2))
    /\ stages[3].midnight #
           FAdd(stages[1].sunset,
                FScale(fix_hour(FSub(stages[1].fajr, stages[1].sunset)), 1, 2))

(***************************************************************************)
(* Properties of the handler (Spec, SpecSpan)                              *)
(***************************************************************************)
\* The handler has returned Ok(Json(response)).
Returned(t) == pc[t] = "done" /\ outcome[t].status = "ok"

\* ... with a response it computed itself.
Fresh(t) == Returned(t) /\ ~outcome[t].from_cache

\* The handler got as far as its loop.
Prepared(t) == pc[t] \in {"loop", "cache_set", "done"} /\ frame[t].calculator # NoCalculator

\* What calculate_prayer_times returns for the i-th day of task t's span.
DayResult(t, i) ==
    calculate_prayer_times(frame[t].calculator, plus_days(frame[t].start_date, i - 1))

\* The records of all the days of task t's span.
Computed(t) == [i \in 1..frame[t].day_count |-> DayResult(t, i).val]

\* The instant a printed date and time names at the offset off.
instant_of(s, off) == naive_minutes(s) - off

\* The scanned prayers (day, prayer) of the days that lie strictly after at.
Upcoming(days, off, at) ==
    {p \in (1..Len(days)) \X (1..Len(NextFields)) :
        LET s == days[p[1]].times[NextFields[p[2]]]
        IN  s.valid /\ instant_of(s, off) > at}

\* C1: a DaysFromToday(1) request computes today and tomorrow, returns
\* today's record alone, and reports as next the earliest scanned prayer
\* of the two days that lies after now.
C1_SingleDayReportsNext ==
    \A t \in Tasks :
        (Fresh(t) /\ frame[t].timespan = DaysFromToday(1)) =>
            LET days  == Computed(t)
                off   == frame[t].timezone
                at    == frame[t].start_date.utc
                today == date_naive(DateTime(at, off))
                up    == Upcoming(days, off, at)
                res   == outcome[t].response
                when(p) == instant_of(days[p[1]].times[NextFields[p[2]]], off)
            IN  /\ frame[t].day_count = 2
                /\ days[1].date = format_date(today)
                /\ days[2].date = format_date(today + 1)
                /\ res.prayers = <<days[1]>>
                /\ up # {} =>
                      /\ res.next.some
                      /\ \E p \in up :
                            /\ res.next.name = NextNames[p[2]]
                            /\ res.next.time = days[p[1]].times[NextFields[p[2]]]
                            /\ \A q \in up : when(p) <= when(q)

\* The first day a span asks for and the number of its days, by the calendar.
RequestedSpan(timespan, off, at) ==
    CASE timespan.kind = "DaysFromToday" ->
             [first |-> date_naive(DateTime(at, off)), days |-> timespan.days]
      [] timespan.kind = "DaysFromDate" ->
             [first |-> days_from_civil(timespan.date.year, timespan.date.month,
                                        timespan.date.day),
              days  |-> timespan.days]
      [] timespan.kind = "Month" ->
             LET m     == parse_month_name(timespan.month).val
                 first == days_from_civil(timespan.year, m, 1)
                 next  == IF m = 12 THEN days_from_civil(timespan.year + 1, 1, 1)
                          ELSE days_from_civil(timespan.year, m + 1, 1)
             IN  [first |-> first, days |-> next - first]
      [] timespan.kind = "GregorianYear" ->
             [first |-> days_from_civil(timespan.year, 1, 1),
              days  |-> days_from_civil(timespan.year + 1, 1, 1)
                        - days_from_civil(timespan.year, 1, 1)]
      [] timespan.kind = "HijriYear" ->
             [first |-> hijri_new_year(timespan.year), days |-> HijriYearDays]

RECURSIVE FirstFailing(_, _)
FirstFailing(t, i) ==
    IF i > frame[t].day_count THEN 0
    ELSE IF ~DayResult(t, i).ok THEN i
    ELSE FirstFailing(t, i + 1)

\* C3: when calculate_prayer_times fails for a day of the span, the handler
\* never reaches its cache write, holds no response, leaves no cache entry
\* under the request's key, and ends with the error of the first failing day
\* (a panic ends it without a response).
C3_NoPartialSuccess ==
    \A t \in Tasks :
        Prepared(t) =>
            \A first \in {FirstFailing(t, 1)} :
                first # 0 =>
                    /\ pc[t] # "cache_set"
                    /\ outcome[t].status # "ok"
                    /\ outcome[t].response = NoResponse
                    /\ ~outcome[t].cache_written
                    /\ \A e \in cache : e.key # frame[t].cache_key
                    /\ pc[t] = "done" =>
                          /\ Len(prayers[t]) = first - 1
                          /\ outcome[t].err = DayResult(t, first).err
                          /\ outcome[t].status =
                                IF DayResult(t, first).err = PanicError THEN "panic"
                                ELSE "err"

\* C3 happens: the first day of a span was computed, the second failed, and
\* the handler returned the Calculation error.
C3_Witness ==
    \E t \in Tasks :
        /\ pc[t] = "done"
        /\ Prepared(t)
        /\ Len(prayers[t]) = 1
        /\ FirstFailing(t, 1) = 2
        /\ outcome[t] = Failed(CalculationError)

\* What parse_timespan returns for the request of task t.
SpanOf(t) ==
    parse_timespan(unwrap_or(request[t].timespan, DefaultTimespan),
                   parse_timezone(request[t].timezone).val, now)

\* The handler of task t has gone past its day-count check, or stopped at it.
PastCap(t) ==
    \/ Prepared(t)
    \/ pc[t] = "done" /\ outcome[t].err = DayCountError

\* C4: a day count above 366 ends the handler with InvalidInput before a day
\* is calculated and without a cache write; a day count of at most 366 is not
\* rejected by the cap.
C4_DayCountCap ==
    \A t \in Tasks :
        PastCap(t) =>
            /\ SpanOf(t).ok
            /\ SpanOf(t).val.day_count > 366 =>
                  /\ pc[t] = "done"
                  /\ outcome[t] = Failed(DayCountError)
                  /\ prayers[t] = <<>>
                  /\ frame[t].i = 0
                  /\ \A e \in cache : e.key # frame[t].cache_key
            /\ SpanOf(t).val.day_count <= 366 => outcome[t].err # DayCountError

\* C4 happens: a span of 367 days was rejected, and a span of 366 days was
\* answered before it.
C4_Witness ==
    /\ pc[SpanTask] = "done"
    /\ outcome[SpanTask].err = DayCountError
    /\ SpanOf(SpanTask).val.day_count = 367
    /\ \E e \in cache : Len(e.response.prayers) = 366

\* C5: next is None for every span that is not DaysFromToday; for
\* DaysFromToday it is Some whenever a scanned prayer of the computed days
\* lies after now, and then names a prayer of a computed record with that
\* record's time string.
C5_NextWheneverUpcoming ==
    \A t \in Tasks :
        Fresh(t) =>
            LET res  == outcome[t].response
                days == Computed(t)
                up   == Upcoming(days, frame[t].timezone, frame[t].start_date.utc)
            IN  IF frame[t].timespan.kind # "DaysFromToday" THEN ~res.next.some
                ELSE up # {} =>
                        /\ res.next.some
                        /\ \E i \in 1..Len(days) : \E k \in 1..Len(NextNames) :
                              /\ res.next.name = NextNames[k]
                              /\ res.next.time = days[i].times[NextFields[k]]

\* The calculator a response's metadata describes.
CalculatorOf(meta) == PrayerCalculator(meta.coordinates, meta.settings, meta.adjustments.v)

\* Every record the system holds, with the inputs of the call that made it:
\* the records of the running loops, of the returned responses and of the
\* cached responses.
Held ==
    UNION {{[calc |-> frame[t].calculator, off |-> frame[t].timezone,
             rec |-> prayers[t][i]] : i \in 1..Len(prayers[t])} :
              t \in {u \in Tasks : Prepared(u)}}
    \cup
    UNION {{[calc |-> CalculatorOf(res.meta), off |-> parse_timezone(res.meta.timezone).val,
             rec |-> res.prayers[i]] : i \in 1..Len(res.prayers)} :
              res \in {outcome[t].response : t \in {u \in Tasks : Returned(u)}}
                      \cup {e.response : e \in cache}}

\* C6: two records made with the same coordinates, method settings,
\* adjustments, offset and calendar date are equal, whatever the clock
\* showed, whichever calls came before and whatever the cache held.
C6_SameInputsSameRecord ==
    \A a \in Held : \A b \in Held :
        (a.calc = b.calc /\ a.off = b.off /\ a.rec.date = b.rec.date) => a.rec = b.rec

\* C6 happens: a cached response made at one clock value and a loop started
\* at a later one hold a record of the same inputs and date.
C6_Witness ==
    \E e \in cache : \E t \in Tasks :
        /\ Prepared(t)
        /\ frame[t].timespan.kind = "DaysFromToday"
        /\ frame[t].start_date.utc > e.response.meta.calculation_time
        /\ frame[t].calculator = CalculatorOf(e.response.meta)
        /\ frame[t].timezone = parse_timezone(e.response.meta.timezone).val
        /\ \E i \in 1..Len(prayers[t]) : \E j \in 1..Len(e.response.prayers) :
              prayers[t][i].date = e.response.prayers[j].date

\* The record of a request for the single day `day` with the inputs of req.
SingleDay(req, day) ==
    calculate_prayer_times(
        PrayerCalculator(Coordinates(req.latitude, req.longitude,
                                     unwrap_or(req.elevation, 0)),
                         determine_method(req).val.settings,
                         unwrap_or(req.adjustments, NoAdjustments)),
        local_noon(day, parse_timezone(req.timezone).val))

\* C7: every record of a loop is the record of a single-day computation for
\* its date with the request's inputs, whatever the other task is doing, and
\* a returned response lists the loop's records.
C7_DayEqualsSingleDay ==
    \A t \in Tasks :
        /\ Prepared(t) =>
              \A i \in 1..Len(prayers[t]) :
                  \A single \in {SingleDay(request[t],
                                           date_naive(frame[t].start_date) + i - 1)} :
                      single.ok /\ prayers[t][i] = single.val
        /\ Fresh(t) => outcome[t].response.prayers = prayers[t]

\* C7 happens: both tasks are inside their loops, one of them in a span of
\* several days, each with a record computed.
C7_Witness ==
    /\ \A t \in Tasks : pc[t] = "loop" /\ Len(prayers[t]) >= 1
    /\ \E t \in Tasks : frame[t].day_count = 3 /\ Len(prayers[t]) = 3

(***************************************************************************)
(* Properties of method resolution and validation (SpecInputs)             *)
(***************************************************************************)
\* The request passed request.validate() and named a usable timezone, so
\* determine_method was the next thing to decide its fate.
ReachedMethod(t) ==
    /\ pc[t] = "done"
    /\ outcome[t].status \in {"ok", "err"}
    /\ outcome[t].err # ValidationError
    /\ outcome[t].err # TimezoneParsingError

\* The table's method for a country, whatever the case it is written in.
TableMethod(country) ==
    CASE country \in {"SAUDI ARABIA", "Saudi Arabia", "saudi arabia"} -> "Makkah"
      [] country \in {"UK", "uk"} -> "Mwl"
      [] OTHER -> None

\* The twilight fields of a settings record, which no override touches.
Twilight(ms) == <<ms.fajr, ms.isha, ms.maghrib, ms.imsak, ms.dhuhr, ms.midnight, ms.shafaq>>

\* C11: method resolution takes custom before method before country.  With
\* `custom` present the response carries the custom values and meta.method
\* None, whatever method or country say; otherwise `method` is used;
\* otherwise the country's table entry, found in any letter case; a country
\* without an entry fails with NotFound and a request with no selector fails
\* with InvalidInput.
C11_CustomThenMethodThenCountry ==
    \A t \in Tasks :
        ReachedMethod(t) =>
            LET r    == request[t]
                meta == outcome[t].response.meta
                ok   == outcome[t].status = "ok"
            IN  IF r.custom.some
                THEN ok => /\ meta.method = None
                           /\ meta.settings.fajr = unwrap_or(r.custom.v.fajr, Deg(18, 0))
                           /\ meta.settings.dhuhr = unwrap_or(r.custom.v.dhuhr, 0)
                           /\ meta.settings.shafaq = r.custom.v.shafaq
                ELSE IF r.method # None
                THEN /\ ok
                     /\ meta.method = r.method
                     /\ Twilight(meta.settings) = Twilight(to_method_settings(r.method))
                ELSE IF r.country # None
                THEN IF TableMethod(r.country) = None
                     THEN outcome[t].status = "err" /\ outcome[t].err = NotFoundError
                     ELSE /\ ok
                          /\ meta.method = TableMethod(r.country)
                          /\ Twilight(meta.settings) =
                                 Twilight(to_method_settings(TableMethod(r.country)))
                ELSE outcome[t].status = "err" /\ outcome[t].err = InvalidInputError

\* A custom method answered although method and country were given too; and
\* an upper-case country resolved through the table.
C11_Witness ==
    /\ served = 2
    /\ pc[SpanTask] = "done"
    /\ outcome[SpanTask].status = "ok"
    /\ request[SpanTask].custom.some
    /\ request[SpanTask].method = "Tehran"
    /\ request[SpanTask].country = "SAUDI ARABIA"
    /\ outcome[SpanTask].response.meta.method = None
    /\ outcome[SpanTask].response.meta.settings.fajr = Deg(15, 0)
    /\ \E e \in cache : /\ e.response.meta.method = "Makkah"
                         /\ e.response.meta.settings.isha = Minute(90)

\* The same request without its school and high_lat.
WithoutOverrides(r) == [r EXCEPT !.school = None, !.high_lat = None]

\* C12: whichever way the method was chosen, a school or high_lat carried by
\* the request is the one the resolved settings use, a field the request
\* omits keeps the method's own value, and the twilight fields (fajr, isha,
\* maghrib, imsak, dhuhr, midnight, shafaq) are those of the method.
C12_OverridesOnlySchoolAndRule ==
    \A t \in Tasks :
        (ReachedMethod(t) /\ outcome[t].status = "ok") =>
            LET r    == request[t]
                got  == outcome[t].response.meta.settings
                own  == determine_method(WithoutOverrides(r)).val.settings
            IN  /\ got.school = (IF r.school # None THEN r.school ELSE own.school)
                /\ got.high_lat = (IF r.high_lat # None THEN r.high_lat ELSE own.high_lat)
                /\ Twilight(got) = Twilight(own)
                /\ r.custom.some =>
                       /\ own.school = (IF r.custom.v.school = None THEN "Standard"
                                        ELSE r.custom.v.school)
                       /\ own.high_lat = r.custom.v.high_lat
                /\ ~r.custom.some => own.school = "Standard" /\ own.high_lat = NoRule

\* A custom method of the Hanafi school with the OneSeventh rule answered
\* under the request's Standard school and AngleBased rule, and a country's
\* method under the request's Hanafi school with its own (absent) rule.
C12_Witness ==
    /\ served = 2
    /\ pc[SpanTask] = "done"
    /\ outcome[SpanTask].status = "ok"
    /\ request[SpanTask].custom = Some(FullCustom)
    /\ request[SpanTask].school = "Standard"
    /\ request[SpanTask].high_lat = "AngleBased"
    /\ outcome[SpanTask].response.meta.settings.school = "Standard"
    /\ outcome[SpanTask].response.meta.settings.high_lat = "AngleBased"
    /\ outcome[SpanTask].response.meta.settings.isha = Minute(90)
    /\ \E e \in cache : /\ e.response.meta.method = "Makkah"
                         /\ e.response.meta.settings.school = "Hanafi"
                         /\ e.response.meta.settings.high_lat = NoRule

(***************************************************************************)
(* Properties of the parsing functions (SpecText)                          *)
(***************************************************************************)
\* A number as f64 reads one among the model's strings: an optional sign
\* followed by decimal digits only, or by the letters of "nan".
Numeral(s) ==
    \E k \in {0, 1} :
        /\ Len(s) > k
        /\ k = 1 => s[1] \in {"+", "-"}
        /\ \/ \A i \in (k + 1)..Len(s) : s[i] \in {Digits[d] : d \in 1..Len(Digits)}
           \/ /\ Len(s) = k + 3
              /\ s[k + 1] \in {"n", "N"} /\ s[k + 2] \in {"a", "A"} /\ s[k + 3] \in {"n", "N"}

\* 10 to the power n
RECURSIVE TenTo(_)
TenTo(n) == IF n = 0 THEN 1 ELSE 10 * TenTo(n - 1)

\* Its value, digit by digit with the powers of ten.
RECURSIVE PlaceValue(_, _)
PlaceValue(s, i) ==
    IF i > Len(s) THEN 0
    ELSE (IF s[i] \in {"+", "-"} THEN 0
          ELSE ((CHOOSE d \in 1..Len(Digits) : Digits[d] = s[i]) - 1) * TenTo(Len(s) - i))
         + PlaceValue(s, i + 1)

NumeralValue(s) ==
    IF s[Len(s)] \in {"n", "N"} THEN NaN
    ELSE IF s[1] = "-" THEN -PlaceValue(s, 1) ELSE PlaceValue(s, 1)

\* The first whitespace-separated token of a string: the stretch that
\* only blanks precede, that holds no blank and that a blank or the end of
\* the string follows.  The set is empty for a blank string.
FirstWords(s) ==
    {SubSeq(s, p[1], p[2]) :
        p \in {q \in (1..Len(s)) \X (1..Len(s)) :
                  /\ q[1] <= q[2]
                  /\ \A k \in 1..(q[1] - 1) : s[k] = " "
                  /\ \A k \in q[1]..q[2] : s[k] # " "
                  /\ q[2] < Len(s) => s[q[2] + 1] = " "}}

EndsInMin(s) == Len(s) >= 3 /\ <<s[Len(s) - 2], s[Len(s) - 1], s[Len(s)]>> = <<"m", "i", "n">>

\* C13: parse_minute_or_angle turns a string that ends in "min" and whose
\* first whitespace-separated token is a number into MinuteOffset(number),
\* any other string that is a number into Angle(number), and answers every
\* other string with InvalidInput; a custom method's absent fields default
\* to isha = Angle 18, maghrib = 0 min, imsak = 10 min and fajr = 18.
C13_MinuteOrAngleOrInvalid ==
    /\ call.fn = "parse_minute_or_angle" =>
          LET s == call.arg
              minute == EndsInMin(s) /\ \E w \in FirstWords(s) : Numeral(w)
          IN  IF minute
              THEN \A w \in FirstWords(s) : call.result = Ok(Minute(NumeralValue(w)))
              ELSE IF Numeral(s)
              THEN call.result =
                       Ok(Angle(IF IsNaN(NumeralValue(s)) THEN NaN
                                ELSE Deg(NumeralValue(s), 0)))
              ELSE ~call.result.ok /\ call.result.err = InvalidInputError
    /\ (call.fn = "determine_method" /\ call.arg.custom.some /\ call.result.ok) =>
          LET custom == call.arg.custom.v
              got    == call.result.val.settings
          IN  /\ ~custom.isha.some => got.isha = Angle(Deg(18, 0))
              /\ ~custom.maghrib.some => got.maghrib = Minute(0)
              /\ ~custom.imsak.some => got.imsak = Minute(10)
              /\ ~custom.fajr.some => got.fajr = Deg(18, 0)

\* "8 min" read as eight minutes.
C13_Witness ==
    /\ call.fn = "parse_minute_or_angle"
    /\ call.arg = <<"8", " ", "m", "i", "n">>
    /\ call.result = Ok(Minute(8))

(***************************************************************************)
(* Properties of request validation (SpecInputs)                           *)
(***************************************************************************)
\* The claim's ranges, limits included.
InRange(r) ==
    /\ Deg(-90, 0) <= r.latitude /\ r.latitude <= Deg(90, 0)
    /\ Deg(-180, 0) <= r.longitude /\ r.longitude <= Deg(180, 0)
    /\ r.elevation.some => (-500 <= r.elevation.v /\ r.elevation.v <= 10000)

Rejected(o) == o.status = "err" /\ o.err = ValidationError

\* C14: a request whose latitude, longitude or elevation lies outside
\* [-90, 90], [-180, 180] or [-500, 10000] is turned away with a validation
\* error in the step that receives it, before the cache is read and before
\* anything is calculated, and the cache is left as it was; a request on
\* the limits is not turned away.
C14_RejectedBeforeCache ==
    /\ [](\A t \in Tasks :
            pc[t] # "idle" =>
                /\ Rejected(outcome[t]) <=> ~InRange(request[t])
                /\ Rejected(outcome[t]) =>
                       /\ ~outcome[t].from_cache /\ ~outcome[t].cache_written
                       /\ prayers[t] = <<>>
                       /\ frame[t].calculator = NoCalculator)
    /\ [][\A t \in Tasks :
            /\ ~InRange(request'[t]) /\ request'[t] # request[t] =>
                   Rejected(outcome'[t]) /\ pc'[t] = "done"
            /\ (Rejected(outcome'[t]) /\ (pc[t] # pc'[t] \/ request[t] # request'[t])) =>
                   /\ pc[t] \in {"idle", "done"}
                   /\ pc'[t] = "done"
                   /\ cache' = cache]_vars

\* With an answer already cached, a latitude one unit past the pole was
\* turned away and left the cache alone; the cached answer is the pole's.
C14_Witness ==
    /\ served = 2
    /\ request[SpanTask].latitude = Deg(90, 0) + 1
    /\ Rejected(outcome[SpanTask])
    /\ \E e \in cache : e.response.meta.coordinates.latitude = Deg(90, 0)

(***************************************************************************)
(* Properties of the Asr school (SpecCalc)                                 *)
(***************************************************************************)
\* The input's calculator with the Standard school in place of its own.
StandardSchool(calc) == [calc EXCEPT !.method_settings.school = "Standard"]

NonPolar(calc) == Abs(calc.coordinates.latitude) < Deg(90, 0)

\* C15: with every other input equal, the Asr hour compute_times returns
\* for the Hanafi school is not earlier than the one it returns for the
\* Standard school, at every latitude short of the poles and on every date.
C15_HanafiNotEarlier ==
    (Len(stages) = 4 /\ input.calc.method_settings.school = "Hanafi" /\ NonPolar(input.calc)) =>
        \A standard \in {compute_times(StandardSchool(input.calc), input.date)} :
            standard.ok /\ ~FLt(stages[4].asr, standard.val.asr)

\* Hanafi Asr earlier than Standard Asr already in the value asr_time
\* returns, before any wrap of the longitude correction, and both after
\* sunset.
C15_HanafiEarlier ==
    /\ Len(stages) = 4
    /\ input.calc.method_settings.school = "Hanafi"
    /\ NonPolar(input.calc)
    /\ \E sp \in {sun_position(julian_date(input.date))} :
       \E standard \in {raw_times(StandardSchool(input.calc), sp)} :
           /\ standard.ok
           /\ FLt(stages[1].asr, standard.val.asr)
           /\ FGt(stages[1].asr, stages[1].sunset)
    /\ FLt(stages[4].asr, compute_times(StandardSchool(input.calc), input.date).val.asr)

\* C16: the bearing QiblaCalculator returns, normalized and then rounded to six
\* decimals, and the bearing PrayerCalculator::calculate_qibla_direction
\* returns, are at least 0 and strictly below 360 degrees.
C16_BearingBelowFullCircle ==
    /\ call.fn = "calculate_bearing_to_kaaba" =>
           0 <= call.result /\ call.result < FullCircle * BearingUnit
    /\ call.fn = "calculate_qibla_direction" =>
           0 <= call.result /\ call.result < FullCircle * AngUnit

\* What fails C16: an observer one seventh decimal east of the Kaaba's
\* meridian, whose bearing is a hair below zero, is normalized to a hair below
\* 360 and rounded to 360 exactly.
C16_FullCircle ==
    /\ call.fn = "calculate_bearing_to_kaaba"
    /\ call.arg.latitude = 0
    /\ call.arg.longitude = KAABA_LONGITUDE + 1
    /\ call.result = FullCircle * BearingUnit

\* A string of the shape "+HH:MM" or "-HH:MM".
SignedHoursMinutes(s) ==
    /\ Len(s) = 6
    /\ s[1] \in {"+", "-"}
    /\ is_digit(s[2]) /\ is_digit(s[3])
    /\ s[4] = ":"
    /\ is_digit(s[5]) /\ is_digit(s[6])

\* The signed hours and the minutes such a string denotes.
SignedHours(s) ==
    (IF s[1] = "-" THEN -1 ELSE 1) * (digit_value(s[2]) * 10 + digit_value(s[3]))

MinutesOf(s) == digit_value(s[5]) * 10 + digit_value(s[6])

WithinOffsetRange(s) ==
    /\ -12 <= SignedHours(s) /\ SignedHours(s) <= 14
    /\ 0 <= MinutesOf(s) /\ MinutesOf(s) <= 59

\* C17: parse_timezone and validate_timezone accept a "+HH:MM" or "-HH:MM"
\* string only when its signed hours are between -12 and +14 and its minutes
\* between 0 and 59, and return the TimezoneParsing error otherwise.
C17_OffsetWithinRange ==
    /\ call.fn = "parse_timezone" /\ SignedHoursMinutes(trim(call.arg)) =>
           /\ call.result.ok <=> WithinOffsetRange(trim(call.arg))
           /\ ~call.result.ok => call.result.err = TimezoneParsingError
    /\ call.fn = "validate_timezone" /\ SignedHoursMinutes(call.arg) =>
           /\ call.result.ok <=> WithinOffsetRange(call.arg)
           /\ ~call.result.ok => call.result.err = TimezoneParsingError

\* What fails C17: "-13:00" is accepted, as thirteen hours west of UTC.
C17_ThirteenWest ==
    /\ call.fn = "parse_timezone"
    /\ call.arg = <<"-", "1", "3", ":", "0", "0">>
    /\ call.result.ok
    /\ call.result.val = -13 * MinPerHour

\* The calls of an identifier that have begun beyond the first
\* requests_per_minute.
BeyondLimit(id) ==
    IF tally[id].begun > requests_per_minute THEN tally[id].begun - requests_per_minute ELSE 0

\* C18: from a reset counter and within the 60-second window, no more than
\* requests_per_minute calls of check_rate_limit for an identifier return
\* true, and a call returns false only if more than requests_per_minute
\* calls have begun; for calls issued one after the other that is: the first
\* requests_per_minute return true and every further one false.
C18_FirstAllowedRestDenied ==
    clock < Window =>
        \A id \in Identifiers :
            /\ tally[id].allowed <= requests_per_minute
            /\ tally[id].denied <= BeyondLimit(id)

\* What fails C18: within the window one call more than requests_per_minute
\* has been answered true, the later ones by the local map after Redis had
\* counted the earlier ones.
C18_AllowedBeyondLimit ==
    /\ clock < Window
    /\ \E id \in Identifiers :
          /\ tally[id].allowed > requests_per_minute
          /\ redis_counter[id].count > 0
          /\ local_cache[id].present

\* The rounding of two f64 results, in the model's seconds.
RoundingSlack == 2

\* later = earlier + minutes, modulo 24 h and up to rounding.
MinutesApart(later, earlier, minutes) ==
    /\ ~IsNaN(later) /\ ~IsNaN(earlier)
    /\ \E gap \in {(later - earlier - minutes * SecPerMinute) % DayLength} :
          gap <= RoundingSlack \/ gap >= DayLength - RoundingSlack

\* C19: in the hour values compute_times returns, a field configured as a
\* minute offset lies exactly that many minutes from its reference event,
\* modulo 24 h: maghrib after sunset, isha after maghrib, imsak before fajr,
\* with or without a high-latitude rule.
C19_MinuteOffsetsKept ==
    Len(stages) = 4 =>
        \A ms \in {input.calc.method_settings} :
            /\ ms.maghrib.kind = "Minute" /\ ~IsNaN(stages[4].sunset) =>
                   MinutesApart(stages[4].maghrib, stages[4].sunset, ms.maghrib.v)
            /\ ms.isha.kind = "Minute" /\ ~IsNaN(stages[4].maghrib) =>
                   MinutesApart(stages[4].isha, stages[4].maghrib, ms.isha.v)
            /\ ms.imsak.kind = "Minute" /\ ~IsNaN(stages[4].fajr) =>
                   MinutesApart(stages[4].fajr, stages[4].imsak, ms.imsak.v)

\* The same without a high-latitude rule.
C19_KeptWithoutRule ==
    input.calc.method_settings.high_lat = NoRule => C19_MinuteOffsetsKept

\* What fails C19: at 51.5 degrees north adjust_high_latitudes has moved Fajr
\* after Imsak was taken ten minutes before the unadjusted Fajr, and has
\* moved an Isha that was ninety minutes after Maghrib.
C19_MovedAfterOffset ==
    /\ Len(stages) = 4
    /\ input.calc.coordinates.latitude = Deg(51, 5)
    /\ input.calc.method_settings.high_lat = "OneSeventh"
    /\ input.calc.method_settings.isha = Minute(90)
    /\ input.calc.method_settings.imsak = Minute(10)
    /\ ~IsNaN(stages[1].fajr) /\ stages[2].fajr # stages[1].fajr
    /\ ~IsNaN(stages[1].isha) /\ stages[2].isha # stages[1].isha
    /\ ~MinutesApart(stages[4].isha, stages[4].maghrib, 90)
    /\ ~MinutesApart(stages[4].fajr, stages[4].imsak, 10)

\* gap <= portion, as f64 compares: false when either is NaN.
WithinPortion(gap, portion) == ~IsNaN(gap) /\ ~IsNaN(portion) /\ gap <= portion

\* The angle whose share of the night is the portion of Isha.
IshaAngleOf(ms) == IF ms.isha.kind = "Angle" THEN ms.isha.v ELSE Deg(DefaultIshaAngle, 0)

\* C20: with a rule, Fajr is replaced by sunrise - portion exactly when it is
\* NaN or fix_hour(sunrise - fajr) > portion, and Isha by sunset + portion
\* exactly when it is NaN or fix_hour(isha - sunset) > portion, the portions
\* being night/2, night/7 or angle/60 * night of night = fix_hour(sunrise -
\* sunset); afterwards both lie within their portions, a value within its
\* portion is untouched, and no other field changes; without a rule no field
\* changes.
C20_ReplacedBeyondPortion ==
    Len(stages) >= 2 =>
        \A ms \in {input.calc.method_settings} :
        \A night \in {fix_hour(FSub(stages[1].sunrise, stages[1].sunset))} :
            IF ms.high_lat = NoRule THEN stages[2] = stages[1]
            ELSE \A fajr_portion \in {night_portion(ms.high_lat, ms.fajr, night)} :
                 \A isha_portion \in {night_portion(ms.high_lat, IshaAngleOf(ms), night)} :
                    /\ stages[2].fajr =
                           IF IsNaN(stages[1].fajr) \/ FGt(FajrGap(stages[1]), fajr_portion)
                           THEN FSub(stages[1].sunrise, fajr_portion) ELSE stages[1].fajr
                    /\ stages[2].isha =
                           IF IsNaN(stages[1].isha) \/ FGt(IshaGap(stages[1]), isha_portion)
                           THEN FAdd(stages[1].sunset, isha_portion) ELSE stages[1].isha
                    /\ WithinPortion(FajrGap(stages[2]), fajr_portion)
                    /\ WithinPortion(IshaGap(stages[2]), isha_portion)
                    /\ \A f \in FieldSet \ {"fajr", "isha"} : stages[2][f] = stages[1][f]

\* What fails C20: under AngleBased a Fajr angle below zero gives a portion
\* below zero; Fajr is replaced by sunrise - portion, a time after sunrise,
\* whose distance before sunrise is nearly a whole day.
C20_FajrAfterSunrise ==
    /\ Len(stages) >= 2
    /\ input.calc.method_settings.high_lat = "AngleBased"
    /\ FLt(input.calc.method_settings.fajr, 0)
    /\ \E night \in {fix_hour(FSub(stages[1].sunrise, stages[1].sunset))} :
       \E fajr_portion \in {night_portion("AngleBased", input.calc.method_settings.fajr, night)} :
           /\ FLt(fajr_portion, 0)
           /\ stages[2].fajr = FSub(stages[1].sunrise, fajr_portion)
           /\ FGt(stages[2].fajr, stages[2].sunrise)
           /\ FGt(FajrGap(stages[2]), fajr_portion)

\* The values compute_times hands on after its first three stages: the
\* results of sun_angle_time and asr_time and the minute offsets, the
\* high-latitude-adjusted Fajr and Isha, and midnight and the night thirds.
HandedOn(k) ==
    CASE k = 1 -> {"imsak", "fajr", "sunrise", "asr", "sunset", "maghrib", "isha"}
      [] k = 2 -> {"fajr", "isha"}
      [] k = 3 -> {"midnight", "first_third", "last_third"}

\* C21: every hour value handed from one step of the pipeline to the next
\* lies in [0,24): the results of sun_angle_time and asr_time, the
\* minute-offset Maghrib, Isha and Imsak, the high-latitude-adjusted Fajr and
\* Isha, and midnight and the night thirds before the longitude correction.
C21_NormalizedBetweenSteps ==
    /\ (solved.called /\ solved.result.ok) => InDay(solved.result.val)
    /\ \A k \in 1..3 : Len(stages) >= k => \A f \in HandedOn(k) : InDay(stages[k][f])

\* What fails C21: at 21.4 degrees north under the Muslim World League method,
\* with every angle solved to a number, the last third of the night handed to
\* the longitude correction is sunset + 2/3 of the night, past 24 hours.
C21_LastThirdPastDay ==
    /\ Len(stages) >= 3
    /\ input.calc.coordinates.latitude = Deg(21, 4)
    /\ input.calc.method_settings = to_method_settings("Mwl")
    /\ \A f \in FieldSet : ~IsNaN(stages[3][f])
    /\ \A f \in HandedOn(1) : InDay(stages[1][f])
    /\ stages[3].last_third =
           FAdd(stages[3].sunset,
                FScale(fix_hour(FSub(stages[3].sunrise, stages[3].sunset)), 2, 3))
    /\ stages[3].last_third >= DayLength
    /\ stages[3].midnight >= DayLength

\* A response reports a next prayer.
NextReported == \E t \in Tasks : Returned(t) /\ outcome[t].response.next.some

\* C26: a reported next is the chronologically earliest of the Imsak, Fajr,
\* Dhuhr, Asr, Maghrib and Isha timestamps of the computed days that lie
\* strictly after now.
C26_NextIsEarliest ==
    \A t \in Tasks :
        (Fresh(t) /\ outcome[t].response.next.some) =>
            \A days \in {Computed(t)} :
            \A up \in {Upcoming(days, frame[t].timezone, frame[t].start_date.utc)} :
                \E p \in up :
                    /\ outcome[t].response.next.name = NextNames[p[2]]
                    /\ outcome[t].response.next.time = days[p[1]].times[NextFields[p[2]]]
                    /\ \A q \in up :
                           naive_minutes(days[p[1]].times[NextFields[p[2]]])
                               <= naive_minutes(days[q[1]].times[NextFields[q[2]]])

\* No response of the handler reports a next prayer: parse_from_str fails on
\* every time string.
C26_NextNeverReported == ~NextReported

(***************************************************************************)
(* Properties of format_time (SpecFormat)                                  *)
(***************************************************************************)
\* The record calculate_prayer_times gives the same calculator without
\* adjustments.
Unadjusted(calc, date) ==
    calculate_prayer_times([calc EXCEPT !.adjustments = NoAdjustments], date).val.times

\* A printed date and time that exists: a day of its month, an hour and a
\* minute of the clock.
WellFormed(s) ==
    /\ s.valid
    /\ from_ymd_opt(s.year, s.month, s.day).some
    /\ s.hour \in 0..23 /\ s.minute \in 0..(MinPerHour - 1)

\* C22: format_time renders NaN as "Invalid Time" and any other hour as 00:00
\* of the date plus round(time * 60) + adjustment minutes; in a record, the
\* adjustment of a field moves that field by exactly that many minutes, over
\* hour and day boundaries, and a field without adjustment is as it is in the
\* record computed without adjustments.
C22_AdjustmentShiftsItsField ==
    /\ call.fn = "format_time" =>
           IF IsNaN(call.arg.time) THEN call.result.val = InvalidTime
           ELSE /\ WellFormed(call.result.val)
                /\ naive_minutes(call.result.val) =
                       date_naive(call.arg.date) * MinPerDay
                           + RoundDiv(call.arg.time, SecPerMinute) + call.arg.adjustment
    /\ (call.fn = "calculate_prayer_times" /\ call.result.ok) =>
           \A base \in {Unadjusted(call.arg.calc, call.arg.date)} :
           \A f \in FieldSet :
               IF ~base[f].valid THEN call.result.val.times[f] = InvalidTime
               ELSE /\ WellFormed(call.result.val.times[f])
                    /\ naive_minutes(call.result.val.times[f]) =
                           naive_minutes(base[f]) + call.arg.calc.adjustments[f]
                    /\ call.arg.calc.adjustments[f] = 0 =>
                           call.result.val.times[f] = base[f]

\* A record with one adjusted field, moved by 127 minutes into the next day,
\* the other ten fields as without adjustment, one of them "Invalid Time".
C22_Witness ==
    /\ call.fn = "calculate_prayer_times" /\ call.result.ok
    /\ \E f \in FieldSet :
           /\ call.arg.calc.adjustments = OneAdjustment(f, I8Max)
           /\ \A base \in {Unadjusted(call.arg.calc, call.arg.date)} :
                  /\ base[f].valid
                  /\ call.result.val.times[f].day # base[f].day
                  /\ naive_minutes(call.result.val.times[f]) = naive_minutes(base[f]) + I8Max
                  /\ \A g \in FieldSet \ {f} : call.result.val.times[g] = base[g]
                  /\ \E g \in FieldSet \ {f} : ~base[g].valid

\* C27: every field of a PrayerTimes record that is not "Invalid Time"
\* carries the calendar date of the record's `date` field, for every hour in
\* [0,24) and every adjustment in -128..127.
C27_FieldsCarryRecordDate ==
    /\ (call.fn = "format_time" /\ call.result.val.valid) =>
           \A date \in {format_date(date_naive(call.arg.date))} :
               /\ call.result.val.day = date.day
               /\ call.result.val.month = date.month
               /\ call.result.val.year = date.year
    /\ (call.fn = "calculate_prayer_times" /\ call.result.ok) =>
           \A f \in FieldSet : \A s \in {call.result.val.times[f]} :
               s.valid => /\ s.day = call.result.val.date.day
                          /\ s.month = call.result.val.date.month
                          /\ s.year = call.result.val.date.year

\* The day number a printed date names.
DayOf(s) == days_from_civil(s.year, s.month, s.day)

\* C27 as the code has it: a field that is not "Invalid Time" carries the
\* date of the record moved by the whole days in round(time * 60) +
\* adjustment minutes; it carries the record's own date exactly when those
\* minutes lie in 0..1439.
C27_DateCarriedWithMinutes ==
    /\ (call.fn = "format_time" /\ call.result.val.valid) =>
           DayOf(call.result.val) =
               date_naive(call.arg.date)
                   + (RoundDiv(call.arg.time, SecPerMinute) + call.arg.adjustment)
                         \div MinPerDay
    /\ (call.fn = "calculate_prayer_times" /\ call.result.ok) =>
           \A times \in {compute_times(call.arg.calc, call.arg.date).val} :
           \A f \in FieldSet : \A s \in {call.result.val.times[f]} :
               s.valid =>
                   \A total \in {RoundDiv(times[f], SecPerMinute)
                                     + call.arg.calc.adjustments[f]} :
                       /\ DayOf(s) = DayOf(call.result.val.date) + total \div MinPerDay
                       /\ (DayOf(s) = DayOf(call.result.val.date))
                              <=> total \in 0..(MinPerDay - 1)

\* A record dated 31/12/2026 whose Imsak is a time of that date and whose
\* Isha, adjusted by 127 minutes, is printed as a time of 01/01/2027.
C27_IshaOfNextYear ==
    /\ call.fn = "calculate_prayer_times" /\ call.result.ok
    /\ call.arg.calc.adjustments = OneAdjustment("isha", I8Max)
    /\ call.result.val.date = format_date(days_from_civil(2026, 12, 31))
    /\ call.result.val.times.isha.valid
    /\ call.result.val.times.isha.year = 2027
    /\ call.result.val.times.isha.month = 1 /\ call.result.val.times.isha.day = 1
    /\ call.result.val.times.imsak.year = 2026

\* C29: for a fixed calendar date, coordinates, method settings and
\* adjustments the eleven formatted strings are the same for every timezone
\* offset: the offset only selects the calendar date, and the strings are
\* those of the computed hours counted from 00:00 of that date with no
\* offset added.
C29_SameStringsForEveryOffset ==
    (call.fn = "calculate_prayer_times" /\ call.result.ok) =>
        /\ \A off \in FormatOffsets : \A minute \in FormatMinutes :
               \A other \in {calculate_prayer_times(
                                 call.arg.calc,
                                 local_time(date_naive(call.arg.date), minute, off))} :
                   other.ok /\ other.val = call.result.val
        /\ \A times \in {compute_times(call.arg.calc, call.arg.date).val} :
           \A f \in FieldSet :
               call.result.val.times[f] =
                   format_time(times[f], DateTime(date_naive(call.arg.date) * MinPerDay, 0),
                               call.arg.calc.adjustments[f])

\* A record of 31/12/2026 computed in the last minute of that date five
\* hours west of Greenwich, when the UTC date is already 01/01/2027: every
\* string that is not "Invalid Time" is as computed five and a half hours
\* east, and Dhuhr is printed as the Dhuhr hour itself.
C29_Witness ==
    /\ call.fn = "calculate_prayer_times" /\ call.result.ok
    /\ call.arg.date = local_time(days_from_civil(2026, 12, 31), MinPerDay - 1, -300)
    /\ call.arg.date.utc \div MinPerDay = days_from_civil(2027, 1, 1)
    /\ call.arg.calc.adjustments = NoAdjustments
    /\ call.result.val =
           calculate_prayer_times(call.arg.calc,
                                  local_time(days_from_civil(2026, 12, 31), 0, 330)).val
    /\ \A times \in {compute_times(call.arg.calc, call.arg.date).val} :
           /\ call.result.val.times.dhuhr.valid
           /\ call.result.val.times.dhuhr.hour * MinPerHour
                  + call.result.val.times.dhuhr.minute = RoundDiv(times.dhuhr, SecPerMinute)

(***************************************************************************)
(* Properties of the longitude correction (SpecCalc)                       *)
(***************************************************************************)
\* a = b modulo 24 hours, up to the rounding of n f64 results; NaN only
\* with NaN.
SameHour(a, b, n) ==
    IF IsNaN(a) \/ IsNaN(b) THEN IsNaN(a) /\ IsNaN(b)
    ELSE \E gap \in {(a - b) % DayLength} :
             gap <= n * RoundingSlack \/ gap >= DayLength - n * RoundingSlack

\* The calculator moved to another longitude.
AtLongitude(calc, lng) == [calc EXCEPT !.coordinates.longitude = lng]

\* C24: the longitude correction subtracts longitude / 15 hours from every
\* one of the eleven fields and adds dhuhr_offset / 60 hours to Dhuhr only;
\* hence with only the longitude changed by D degrees every hour returned is
\* shifted by -D / 15 modulo 24, and the circular difference between any two
\* fields is unchanged.
C24_LongitudeShiftsEveryField ==
    Len(stages) = 4 =>
        \A calc \in {input.calc} :
            /\ \A f \in FieldSet :
                   stages[4][f] =
                       fix_hour(FAdd(FSub(stages[3][f], DegToHours(calc.coordinates.longitude)),
                                     IF f = "dhuhr"
                                     THEN MinutesToHours(calc.method_settings.dhuhr)
                                     ELSE 0))
            /\ \A lng \in Longitudes :
               \A other \in {compute_times(AtLongitude(calc, lng), input.date)} :
               \A shift \in {DegToHours(lng - calc.coordinates.longitude)} :
                   /\ other.ok
                   /\ \A f \in FieldSet :
                          SameHour(other.val[f], FSub(stages[4][f], shift), 1)
                   /\ \A f, g \in FieldSet :
                          SameHour(FSub(other.val[f], other.val[g]),
                                   FSub(stages[4][f], stages[4][g]), 2)

\* Times 74 degrees west with a Dhuhr offset of five minutes: Dhuhr is the
\* uncorrected Dhuhr plus 74/15 hours plus five minutes, sunset the
\* uncorrected sunset plus 74/15 hours, past midnight, and at 39.8 degrees
\* east every field lies 113.8/15 hours earlier.
C24_Witness ==
    /\ Len(stages) = 4
    /\ input.calc.coordinates.longitude = Deg(-74, 0)
    /\ input.calc.method_settings.dhuhr = 5
    /\ \A f \in FieldSet : ~IsNaN(stages[4][f])
    /\ SameHour(stages[4].dhuhr,
                stages[3].dhuhr + DegToHours(Deg(74, 0)) + 5 * SecPerMinute, 1)
    /\ stages[4].sunset < stages[3].sunset
    /\ \A other \in {compute_times(AtLongitude(input.calc, Deg(39, 8)), input.date).val} :
       \A f \in FieldSet :
           /\ other[f] # stages[4][f]
           /\ SameHour(other[f], stages[4][f] - DegToHours(Deg(113, 8)), 1)

(***************************************************************************)
(* Properties of the response cache (Spec)                                 *)
(***************************************************************************)
\* Two responses that differ in calculation_time at most.
SameApartFromTime(a, b) ==
    /\ a.qibla_direction = b.qibla_direction
    /\ a.next = b.next
    /\ a.prayers = b.prayers
    /\ [a.meta EXCEPT !.calculation_time = 0] = [b.meta EXCEPT !.calculation_time = 0]

\* Task t is served from the cache in this step.
CacheHit(t) == pc[t] = "cache_get" /\ pc'[t] = "done" /\ outcome'[t].from_cache

\* C25: a response served from the cache equals, apart from
\* calculation_time, the response a fresh computation of the same request
\* would produce at that moment; a cached DaysFromToday response lists the
\* prayers of the current local date.
C25_CachedAsFresh ==
    [][\A t \in Tasks :
          CacheHit(t) =>
              \A fresh \in {compute_response(request[t], now)} :
                  fresh.ok /\ SameApartFromTime(outcome'[t].response, fresh.val)]_vars

\* The same for the spans that name their dates.
C25_DatedSpansAsFresh ==
    [][\A t \in Tasks :
          (CacheHit(t)
              /\ unwrap_or(request[t].timespan, DefaultTimespan).kind # "DaysFromToday") =>
              \A fresh \in {compute_response(request[t], now)} :
                  fresh.ok /\ SameApartFromTime(outcome'[t].response, fresh.val)]_vars

\* The same for every span while the local date is the date of the first
\* cached record.
C25_SameDateAsFresh ==
    [][\A t \in Tasks :
          (CacheHit(t)
              /\ \A off \in {parse_timezone(request[t].timezone).val} :
                 \A list \in {outcome'[t].response.prayers} :
                     Len(list) >= 1 =>
                         list[1].date = format_date(date_naive(DateTime(now, off)))) =>
              \A fresh \in {compute_response(request[t], now)} :
                  fresh.ok /\ SameApartFromTime(outcome'[t].response, fresh.val)]_vars

\* A response the handler computed in one instant is the response of
\* compute_response at that instant.
C25_FreshAsComputed ==
    \A t \in Tasks :
        (Fresh(t) /\ frame[t].start_date.utc = outcome[t].response.meta.calculation_time
            /\ frame[t].timespan.kind = "DaysFromToday") =>
            outcome[t].response =
                compute_response(request[t], outcome[t].response.meta.calculation_time).val

\* What fails C25: a DaysFromToday request is about to read the cache at
\* 00:15 of 01/11/2026 local time, and the live entry of its key, stored at
\* 23:30, lists the prayers of 31/10/2026.
C25_YesterdayInCache ==
    \E t \in Tasks :
        /\ pc[t] = "cache_get"
        /\ unwrap_or(request[t].timespan, DefaultTimespan).kind = "DaysFromToday"
        /\ cache_get(frame[t].cache_key).some
        /\ \A cached \in {cache_get(frame[t].cache_key).v} :
           \A off \in {parse_timezone(request[t].timezone).val} :
               /\ Len(cached.prayers) >= 1
               /\ cached.prayers[1].date = format_date(days_from_civil(2026, 10, 31))
               /\ format_date(date_naive(DateTime(now, off)))
                      = format_date(days_from_civil(2026, 11, 1))
               /\ compute_response(request[t], now).val.prayers[1].date
                      = format_date(days_from_civil(2026, 11, 1))

(***************************************************************************)
(* Properties of the window of the rate limiter (SpecRate)                 *)
(***************************************************************************)
\* C28: a client that was answered false is answered true again once 60 s
\* have passed since the first counted request of its window, whether or not
\* it kept sending meanwhile: no call counted 60 s or more after the first
\* call of a window in which the client was rejected is answered false.
C28_AllowedAfterWindow ==
    \A id \in Identifiers : ~tally[id].late

\* What fails C28, on Redis alone: the key was counted at 0 s, again at 30 s
\* (rejected, and EXPIRE moved its expiry on to 90 s), and the call counted
\* at 60 s found it alive and was rejected too.
C28_RejectedRenewsBlock ==
    \E id \in Identifiers :
        /\ tally[id].late
        /\ tally[id].window = Window
        /\ clock = Window
        /\ tally[id].allowed = 1
        /\ tally[id].denied = 2
        /\ ~local_cache[id].present
        /\ redis_counter[id].count = 3
        /\ redis_counter[id].expires = clock + Window

\* The local map alone keeps the window fixed: a client no call of which was
\* counted by Redis is never rejected 60 s after the first counted call.
C28_LocalWindowIsFixed ==
    \A id \in Identifiers : redis_counter[id].count = 0 => ~tally[id].late

(***************************************************************************)
(* Properties of the cache of ZakatService (SpecZakat)                     *)
(***************************************************************************)
\* A read of the user has returned the cached view.
ReturnedCached(t) ==
    /\ zakat_pc[t].op \in ZakatReads
    /\ zakat_pc[t].at = "returned"
    /\ zakat_pc[t].hit

\* C30: once save_calculation or delete_user_data of a user has completed,
\* no get_calculation_history or get_user_summary of that user that begins
\* later returns a cached view predating the write, whatever the
\* interleaving with concurrent reads.
C30_NoStaleCachedView ==
    \A t \in Tasks : ReturnedCached(t) => ~zakat_pc[t].stale

\* What fails C30, by the race: the table holds the row a completed
\* save_calculation inserted, zakat_history was deleted by it, and a
\* get_calculation_history begun after it returned the empty history that
\* a concurrent read had loaded before the insert and stored after the
\* deletion.
C30_OldHistoryStoredAfterInvalidation ==
    \E t \in Tasks :
        /\ ReturnedCached(t)
        /\ zakat_pc[t].op = "get_calculation_history"
        /\ zakat_pc[t].stale
        /\ zakat_pc[t].settled = 1
        /\ zakat_pc[t].view = ViewOf({})
        /\ zakat_calculations = {1}
        /\ zakat_log.begun = 3

\* What fails C30 without any concurrency: zakat_summary is deleted by
\* neither write, and get_user_summary returns the summary of the empty
\* table after save_calculation has completed.
C30_SummaryNeverInvalidated ==
    \E t \in Tasks :
        /\ ReturnedCached(t)
        /\ zakat_pc[t].op = "get_user_summary"
        /\ zakat_pc[t].stale
        /\ zakat_pc[t].view = ViewOf({})
        /\ zakat_calculations = {1}
====
